---- MODULE Spec2Model ----
(***************************************************************************)
(* A model of the ai-skills-hub serving core (src/src/utils.ts, the        *)
(* script executor and the MCP request handlers) and of the add and sync   *)
(* commands (src/src/commands).                                            *)
(*                                                                         *)
(* Strings are sequences of one-character strings, so that the regular     *)
(* expressions, prefix tests and path normalisation of the source are      *)
(* computed character by character.  The filesystem fs is a function from  *)
(* normalised absolute paths to nodes, derived from the set of entries     *)
(* that are present.                                                       *)
(***************************************************************************)
EXTENDS Integers, Sequences, FiniteSets, TLC

\* present: the optional filesystem entries that exist, by id
\* failing: the entries on which system calls fail, as [id, kind]
\* listing: the order in which the platform lists a directory
\* resp:    the response of the request in progress, Idle when there is none
\* calls:   the requests in flight at once and their local state, by slot
\* configs: the configuration file sync writes, its backups and the clock
VARIABLES present, failing, listing, resp, calls, configs

vars == <<present, failing, listing, resp, calls, configs>>

\* ------------------------------------------------------------------------
\* Bounds of the model
\* ------------------------------------------------------------------------
\* the most optional filesystem entries present at one time
MaxNodes == 5
\* the most filesystem entries that fail at one time
MaxFaults == 1

\* ------------------------------------------------------------------------
\* JavaScript string primitives
\* ------------------------------------------------------------------------
UpperSeq == <<"A","B","C","D","E","F","G","H","I","J","K","L","M",
              "N","O","P","Q","R","S","T","U","V","W","X","Y","Z">>
LowerSeq == <<"a","b","c","d","e","f","g","h","i","j","k","l","m",
              "n","o","p","q","r","s","t","u","v","w","x","y","z">>
Digits == {"0","1","2","3","4","5","6","7","8","9"}

Range(s) == {s[i] : i \in DOMAIN s}

\* the lower-case letter of every upper-case letter
LowerOf == [c \in Range(UpperSeq) |-> LowerSeq[CHOOSE i \in DOMAIN UpperSeq : UpperSeq[i] = c]]

\* String.prototype.toLowerCase on one character
ToLowerChar(c) == IF c \in DOMAIN LowerOf THEN LowerOf[c] ELSE c

ToLowerCase(s) == [i \in DOMAIN s |-> ToLowerChar(s[i])]

\* the class [a-z0-9] under the i flag
AlnumChars == Range(LowerSeq) \cup Range(UpperSeq) \cup Digits

IsAlnum(c) == c \in AlnumChars

StartsWith(s, pre) ==
    /\ Len(pre) <= Len(s)
    /\ SubSeq(s, 1, Len(pre)) = pre

EndsWith(s, suf) ==
    /\ Len(suf) <= Len(s)
    /\ SubSeq(s, Len(s) - Len(suf) + 1, Len(s)) = suf

\* s.substring(n)
Substring(s, n) == SubSeq(s, n + 1, Len(s))

\* s.replace(/<suf>$/, '')
StripSuffix(s, suf) ==
    IF EndsWith(s, suf) THEN SubSeq(s, 1, Len(s) - Len(suf)) ELSE s

\* s.replace(/<c>/g, d) for single characters
ReplaceChar(s, c, d) == [i \in DOMAIN s |-> IF s[i] = c THEN d ELSE s[i]]

\* the index of the first sep in s at or after i, Len(s) + 1 when none
NextSep(s, sep, i) ==
    IF \E j \in i..Len(s) : s[j] = sep
    THEN CHOOSE j \in i..Len(s) :
            /\ s[j] = sep
            /\ \A k \in i..(j - 1) : s[k] # sep
    ELSE Len(s) + 1

RECURSIVE SplitFrom(_, _, _, _)
\* the pieces of s from index i on, n being the index of the next separator
SplitFrom(s, sep, i, n) ==
    IF n > Len(s) THEN <<SubSeq(s, i, Len(s))>>
    ELSE <<SubSeq(s, i, n - 1)>> \o SplitFrom(s, sep, n + 1, NextSep(s, sep, n + 1))

\* s.split(sep) for a single-character separator
Split(s, sep) == SplitFrom(s, sep, 1, NextSep(s, sep, 1))

RECURSIVE JoinWith(_, _)
\* segs.join(sep)
JoinWith(segs, sep) ==
    IF segs = <<>> THEN <<>>
    ELSE IF Len(segs) = 1 THEN segs[1]
    ELSE segs[1] \o <<sep>> \o JoinWith(Tail(segs), sep)

\* ------------------------------------------------------------------------
\* POSIX path module
\* ------------------------------------------------------------------------
DOT == <<".">>
DOTDOT == <<".", ".">>
SLASH == <<"/">>

RECURSIVE NormalizeSegs(_, _, _)
\* path.normalizeString: drop '' and '.', resolve '..' against the segments
\* kept so far, keep a leading '..' only when allowAboveRoot
NormalizeSegs(segs, allowAboveRoot, out) ==
    IF segs = <<>> THEN out
    ELSE LET seg == Head(segs)
             rest == Tail(segs)
         IN  IF seg = <<>> \/ seg = DOT
             THEN NormalizeSegs(rest, allowAboveRoot, out)
             ELSE IF seg = DOTDOT
             THEN IF out # <<>> /\ out[Len(out)] # DOTDOT
                  THEN NormalizeSegs(rest, allowAboveRoot, SubSeq(out, 1, Len(out) - 1))
                  ELSE IF allowAboveRoot
                  THEN NormalizeSegs(rest, allowAboveRoot, Append(out, DOTDOT))
                  ELSE NormalizeSegs(rest, allowAboveRoot, out)
             ELSE NormalizeSegs(rest, allowAboveRoot, Append(out, seg))

IsAbsolute(p) == p # <<>> /\ p[1] = "/"

\* p has an empty, a '.' or a '..' segment before its last separator, or ends
\* in a '.' or '..' segment: normalizeString leaves every other path as it is
HasDotOrEmptySegment(p) ==
    \E i \in DOMAIN p :
        /\ i = 1 \/ p[i - 1] = "/"
        /\ \/ p[i] = "/" /\ i > 1
           \/ /\ p[i] = "."
              /\ \/ i = Len(p)
                 \/ p[i + 1] = "/"
                 \/ p[i + 1] = "." /\ (i + 1 = Len(p) \/ p[i + 2] = "/")

\* the end of path.normalize: path is what normalizeString returned
NormalizedPath(path, isAbsolute, trailingSeparator) ==
    IF path = <<>>
    THEN (IF isAbsolute THEN SLASH ELSE IF trailingSeparator THEN DOT \o SLASH ELSE DOT)
    ELSE (IF isAbsolute THEN SLASH ELSE <<>>)
         \o path
         \o (IF trailingSeparator THEN SLASH ELSE <<>>)

\* path.normalize
normalize(p) ==
    IF p = <<>> THEN DOT
    ELSE IF ~HasDotOrEmptySegment(p) THEN p
    ELSE NormalizedPath(JoinWith(NormalizeSegs(Split(p, "/"), ~IsAbsolute(p), <<>>), "/"),
                        IsAbsolute(p), p[Len(p)] = "/")

\* path.join: the non-empty arguments joined by '/', then normalised ('.'
\* when there is none)
join(parts) == normalize(JoinWith(SelectSeq(parts, LAMBDA x : x # <<>>), "/"))

\* the end of path.resolve: full is absolute; no trailing separator is kept
ResolvedPath(full) ==
    IF ~HasDotOrEmptySegment(full) /\ full[Len(full)] # "/" THEN full
    ELSE SLASH \o JoinWith(NormalizeSegs(Split(full, "/"), FALSE, <<>>), "/")

\* path.resolve(base, p) for an absolute base
resolve(base, p) ==
    ResolvedPath(IF IsAbsolute(p) THEN p
                 ELSE IF p = <<>> THEN base
                 ELSE base \o SLASH \o p)

\* ------------------------------------------------------------------------
\* Names and paths of the modelled filesystem
\* ------------------------------------------------------------------------
SKILL_MD == <<"S","K","I","L","L",".","m","d">>
DOT_MD == <<".","m","d">>
SLASH_SKILL_MD == SLASH \o SKILL_MD

\* os.homedir()
homedir == <<"/","h">>
AppDirName == <<".","a","i","-","s","k","i","l","l","s","-","h","u","b">>
SkillsName == <<"s","k","i","l","l","s">>

USER_SKILLS_DIR == join(<<homedir, AppDirName, SkillsName>>)

AppDir == join(<<homedir, AppDirName>>)

\* ------------------------------------------------------------------------
\* The filesystem
\* ------------------------------------------------------------------------
foo == <<"f","o","o">>
fooDashBar == <<"f","o","o","-","b","a","r">>
FooMixBar == <<"F","o","o","_","-","B","a","r">>
fooDotMd == <<"f","o","o",".","m","d">>
evil_sh == <<"e","v","i","l",".","s","h">>
x_sh == <<"x",".","s","h">>
ResourcesName == <<"r","e","s","o","u","r","c","e","s">>
a_md == <<"a",".","m","d">>
B_md == <<"B",".","m","d">>
c_md == <<"c",".","m","d">>
d_md == <<"d",".","m","d">>
n_txt == <<"n",".","t","x","t">>

\* the text of a small Markdown document titled t
Doc(t) == <<"#", " ">> \o t \o <<"\n">>

\* an entry that may come and go: its segments below AppDir, kind and
\* content, and the id of its parent entry ("" for AppDir)
Candidate(segs, kind, content, parent) ==
    [segs |-> segs, kind |-> kind, content |-> content, parent |-> parent]

Candidates ==
    "evil.sh" :> Candidate(<<evil_sh>>, "file", Doc(<<"0">>), "")
    @@ "skills" :> Candidate(<<SkillsName>>, "dir", <<>>, "")
    @@ "skills/SKILL.md" :> Candidate(<<SkillsName, SKILL_MD>>, "file", Doc(<<"1">>), "skills")
    @@ "skills/SKILL.md/" :> Candidate(<<SkillsName, SKILL_MD>>, "dir", <<>>, "skills")
    @@ "skills/foo" :> Candidate(<<SkillsName, foo>>, "dir", <<>>, "skills")
    @@ "skills/foo/SKILL.md" :>
          Candidate(<<SkillsName, foo, SKILL_MD>>, "file", Doc(<<"2">>), "skills/foo")
    @@ "skills/foo/evil.sh" :>
          Candidate(<<SkillsName, foo, evil_sh>>, "file", Doc(<<"3">>), "skills/foo")
    @@ "skills/foo/foo.md" :>
          Candidate(<<SkillsName, foo, fooDotMd>>, "dir", <<>>, "skills/foo")
    @@ "skills/foo/foo.md/SKILL.md" :>
          Candidate(<<SkillsName, foo, fooDotMd, SKILL_MD>>, "file", Doc(<<"4">>),
                    "skills/foo/foo.md")
    @@ "skills/foo-bar" :> Candidate(<<SkillsName, fooDashBar>>, "dir", <<>>, "skills")
    @@ "skills/foo-bar/SKILL.md" :>
          Candidate(<<SkillsName, fooDashBar, SKILL_MD>>, "file", Doc(<<"5">>), "skills/foo-bar")
    @@ "skills/foo-bar/x.sh" :>
          Candidate(<<SkillsName, fooDashBar, x_sh>>, "file", Doc(<<"6">>), "skills/foo-bar")
    @@ "skills/Foo_-Bar" :> Candidate(<<SkillsName, FooMixBar>>, "dir", <<>>, "skills")
    @@ "skills/Foo_-Bar/SKILL.md" :>
          Candidate(<<SkillsName, FooMixBar, SKILL_MD>>, "file", Doc(<<"7">>), "skills/Foo_-Bar")

\* what may come and go below the resources directory of skill foo: the
\* directory itself (or a file of that name), Markdown files, another file,
\* and a directory with a Markdown name holding a Markdown file
ResourceCandidates ==
    "skills/foo/resources" :>
          Candidate(<<SkillsName, foo, ResourcesName>>, "dir", <<>>, "skills/foo")
    @@ "skills/foo/resources (file)" :>
          Candidate(<<SkillsName, foo, ResourcesName>>, "file", Doc(<<"r">>), "skills/foo")
    @@ "skills/foo/resources/a.md" :>
          Candidate(<<SkillsName, foo, ResourcesName, a_md>>, "file", Doc(<<"a">>),
                    "skills/foo/resources")
    @@ "skills/foo/resources/B.md" :>
          Candidate(<<SkillsName, foo, ResourcesName, B_md>>, "file", Doc(<<"b">>),
                    "skills/foo/resources")
    @@ "skills/foo/resources/n.txt" :>
          Candidate(<<SkillsName, foo, ResourcesName, n_txt>>, "file", Doc(<<"n">>),
                    "skills/foo/resources")
    @@ "skills/foo/resources/d.md" :>
          Candidate(<<SkillsName, foo, ResourcesName, d_md>>, "dir", <<>>,
                    "skills/foo/resources")
    @@ "skills/foo/resources/d.md/c.md" :>
          Candidate(<<SkillsName, foo, ResourcesName, d_md, c_md>>, "file", Doc(<<"c">>),
                    "skills/foo/resources/d.md")

\* the name extractSkillName falls back to
DefaultSkillName == <<"s","k","i","l","l">>

\* what a download writes into SKILL.md
DownloadedDoc == Doc(<<"9">>)

\* what the add command works on besides the skill foo: the skill named
\* 'skill', and the documents of both as a download leaves them
AddCandidates ==
    "skills/skill" :> Candidate(<<SkillsName, DefaultSkillName>>, "dir", <<>>, "skills")
    @@ "skills/skill/SKILL.md" :>
          Candidate(<<SkillsName, DefaultSkillName, SKILL_MD>>, "file", Doc(<<"s">>),
                    "skills/skill")
    @@ "skills/skill/SKILL.md (downloaded)" :>
          Candidate(<<SkillsName, DefaultSkillName, SKILL_MD>>, "file", DownloadedDoc,
                    "skills/skill")
    @@ "skills/foo/SKILL.md (downloaded)" :>
          Candidate(<<SkillsName, foo, SKILL_MD>>, "file", DownloadedDoc, "skills/foo")

\* a SKILL.md next to the skills root, not below it
OutsideCandidates ==
    "SKILL.md (outside)" :> Candidate(<<SKILL_MD>>, "file", Doc(<<"8">>), "")

AllCandidates == Candidates @@ ResourceCandidates @@ OutsideCandidates @@ AddCandidates

\* the candidates with their absolute paths
Entry ==
    [i \in DOMAIN AllCandidates |->
        [path |-> AppDir \o SLASH \o JoinWith(AllCandidates[i].segs, "/"),
         kind |-> AllCandidates[i].kind,
         content |-> AllCandidates[i].content,
         parent |-> AllCandidates[i].parent]]

\* the entries of the skills tree
EntryIds == DOMAIN Candidates

\* the directories that always exist: /, the home directory, ~/.ai-skills-hub
BasePaths == {SLASH, homedir, AppDir}

\* what stat and readFile see of entry i
NodeOf(i) == [kind |-> Entry[i].kind, content |-> Entry[i].content]

\* the filesystem made of the base directories and the entries in ids
FsOf(ids) ==
    [p \in BasePaths \cup {Entry[i].path : i \in ids} |->
        IF p \in BasePaths THEN [kind |-> "dir", content |-> <<>>]
        ELSE NodeOf(CHOOSE j \in ids : Entry[j].path = p)]

\* every entry name, in byte order
NameList ==
    <<B_md, FooMixBar, SKILL_MD, a_md, c_md, d_md, evil_sh, foo, fooDashBar, fooDotMd,
      n_txt, ResourcesName, SkillsName, x_sh>>

Reverse(s) == [i \in DOMAIN s |-> s[Len(s) + 1 - i]]

Listings == {"ascending", "descending"}

FaultKinds == {"noread", "nostat"}

\* the filesystem as the program sees it
fs == FsOf(present)

faults == {[path |-> Entry[x.id].path, kind |-> x.kind] : x \in failing}

\* the order of the names in every directory listing
dirOrder == IF listing = "ascending" THEN NameList ELSE Reverse(NameList)

\* the path the kernel looks up: one trailing separator is ignored
Lookup(p) == IF Len(p) > 1 /\ p[Len(p)] = "/" THEN SubSeq(p, 1, Len(p) - 1) ELSE p

IsPathPrefix(d, p) == p = d \/ StartsWith(p, IF d = SLASH THEN d ELSE d \o SLASH)

\* stat(p) succeeds: the entry exists and no component of it is inaccessible
StatOk(F, X, p) ==
    /\ Lookup(p) \in DOMAIN F
    /\ ~ \E x \in X : x.kind = "nostat" /\ IsPathPrefix(x.path, Lookup(p))
    /\ (p # Lookup(p) => F[Lookup(p)].kind = "dir")

\* fs.existsSync
existsSync(F, X, p) == StatOk(F, X, p)

IsDirectory(F, p) == F[Lookup(p)].kind = "dir"

\* readdir(p) / readFile(p) succeed
ReadOk(F, X, p) ==
    /\ StatOk(F, X, p)
    /\ ~ \E x \in X : x.kind = "noread" /\ x.path = Lookup(p)

ReaddirOk(F, X, p) == ReadOk(F, X, p) /\ IsDirectory(F, p)

ReadFileOk(F, X, p) == ReadOk(F, X, p) /\ ~IsDirectory(F, p)

\* the names readdir(p) returns, in the platform's order
readdir(F, ord, p) ==
    SelectSeq(ord, LAMBDA n : (IF Lookup(p) = SLASH THEN SLASH ELSE Lookup(p) \o SLASH) \o n \in DOMAIN F)

Idle == [op |-> "idle"]

\* ------------------------------------------------------------------------
\* Skill Directory Scanner
\* ------------------------------------------------------------------------
RECURSIVE scanDirectory(_, _, _, _, _, _)
RECURSIVE scanEntries(_, _, _, _, _, _, _)

\* every file is taken for a skill definition
IsSkillFile_anyFile(entry) == TRUE

\* line 47: entry === 'SKILL.md'
IsSkillFile(entry) == entry = SKILL_MD

\* lines 44-46 for a directory entry: sub is what the nested scan returned; an
\* error thrown in it leaves the loop
scanRest(F, X, ord, dir, relativePath, entries, sub) ==
    IF sub.threw THEN sub
    ELSE scanEntries(F, X, ord, dir, relativePath, Tail(entries), sub.results)

\* lines 40-50, one round of the loop: stat the entry, descend into a
\* directory, collect a file named SKILL.md; a failing stat throws
scanEntry(F, X, ord, dir, relativePath, entries, results, fullPath, relativeEntryPath) ==
    IF ~StatOk(F, X, fullPath)
    THEN [results |-> results, threw |-> TRUE]
    ELSE IF IsDirectory(F, fullPath)
    THEN scanRest(F, X, ord, dir, relativePath, entries,
                  scanDirectory(F, X, ord, fullPath, relativeEntryPath, results))
    ELSE IF IsSkillFile(Head(entries))
    THEN scanEntries(F, X, ord, dir, relativePath, Tail(entries),
                     Append(results, relativeEntryPath))
    ELSE scanEntries(F, X, ord, dir, relativePath, Tail(entries), results)

\* the loop over the entries of one directory
scanEntries(F, X, ord, dir, relativePath, entries, results) ==
    IF entries = <<>> THEN [results |-> results, threw |-> FALSE]
    ELSE scanEntry(F, X, ord, dir, relativePath, entries, results,
                   join(<<dir, Head(entries)>>),
                   IF relativePath # <<>>
                   THEN relativePath \o SLASH \o Head(entries)
                   ELSE Head(entries))

scanDirectory(F, X, ord, dir, relativePath, results) ==
    IF ~ReaddirOk(F, X, dir)
    THEN [results |-> results, threw |-> TRUE]
    ELSE scanEntries(F, X, ord, dir, relativePath, readdir(F, ord, dir), results)

\* the catch block of scanSkillsDirectory: the error is logged, the paths
\* collected before it are returned
Caught(run) == [results |-> run.results, logged |-> run.threw, raised |-> FALSE]

\* no catch block: the error reaches the caller
Uncaught(run) == [results |-> run.results, logged |-> FALSE, raised |-> run.threw]

\* scanSkillsDirectory without the existsSync guard and without the try block
scanSkillsDirectoryRun_unguarded(F, X, ord) ==
    Uncaught(scanDirectory(F, X, ord, USER_SKILLS_DIR, <<>>, <<>>))

\* scanSkillsDirectory with what became of an error: results are the paths
\* collected, logged says that the catch block ran, raised that the error
\* reached the caller (the try block encloses the whole scan)
scanSkillsDirectoryRun(F, X, ord) ==
    IF existsSync(F, X, USER_SKILLS_DIR)
    THEN Caught(scanDirectory(F, X, ord, USER_SKILLS_DIR, <<>>, <<>>))
    ELSE [results |-> <<>>, logged |-> FALSE, raised |-> FALSE]

scanSkillsDirectory(F, X, ord) == scanSkillsDirectoryRun(F, X, ord).results

\* ------------------------------------------------------------------------
\* Path/Name Codec
\* ------------------------------------------------------------------------
RECURSIVE ReplaceNonAlnumRuns(_, _)
\* s.replace(/[^a-z0-9]+/gi, '_') from position i on
ReplaceNonAlnumRuns(s, i) ==
    IF i > Len(s) THEN <<>>
    ELSE IF IsAlnum(s[i]) THEN <<s[i]>> \o ReplaceNonAlnumRuns(s, i + 1)
    ELSE IF i > 1 /\ ~IsAlnum(s[i - 1]) THEN ReplaceNonAlnumRuns(s, i + 1)
    ELSE <<"_">> \o ReplaceNonAlnumRuns(s, i + 1)

\* parts[parts.length - 1]
Last(parts) == parts[Len(parts)]

filenameToToolName(path) ==
    ToLowerCase(ReplaceNonAlnumRuns(
        Last(Split(StripSuffix(StripSuffix(path, SLASH_SKILL_MD), DOT_MD), "/")), 1))

RECURSIVE FirstMatch_last(_, _)
\* the loop without its early return: the last matching path wins
FirstMatch_last(files, toolName) ==
    IF files = <<>> THEN <<>>
    ELSE IF filenameToToolName(files[Len(files)]) = toolName THEN files[Len(files)]
    ELSE FirstMatch_last(SubSeq(files, 1, Len(files) - 1), toolName)

RECURSIVE FirstMatch(_, _)
\* the for loop of toolNameToFilename: the first path whose tool name matches
FirstMatch(files, toolName) ==
    IF files = <<>> THEN <<>>
    ELSE IF filenameToToolName(Head(files)) = toolName THEN Head(files)
    ELSE FirstMatch(Tail(files), toolName)

\* the fallback keeps the underscores
MatchOrFallback_plain(files, toolName) ==
    IF \E i \in DOMAIN files : filenameToToolName(files[i]) = toolName
    THEN FirstMatch(files, toolName)
    ELSE toolName \o SLASH_SKILL_MD

\* lines 84-93: the first match of the loop, or the constructed path
MatchOrFallback(files, toolName) ==
    IF \E i \in DOMAIN files : filenameToToolName(files[i]) = toolName
    THEN FirstMatch(files, toolName)
    ELSE ReplaceChar(toolName, "_", "-") \o SLASH_SKILL_MD

toolNameToFilename(F, X, ord, toolName) ==
    MatchOrFallback(scanSkillsDirectory(F, X, ord), toolName)

\* ------------------------------------------------------------------------
\* File reads
\* ------------------------------------------------------------------------
\* readFile(filePath): the text, or a throw
readFile(F, X, filePath) ==
    IF ReadFileOk(F, X, filePath)
    THEN [ok |-> TRUE, content |-> F[Lookup(filePath)].content, file |-> filePath]
    ELSE [ok |-> FALSE, content |-> <<>>, file |-> filePath]

readSkillFile(F, X, filepath) == readFile(F, X, join(<<USER_SKILLS_DIR, filepath>>))

\* ------------------------------------------------------------------------
\* Resource URI Resolver
\* ------------------------------------------------------------------------
SKILL_SCHEME == <<"s","k","i","l","l",":","/","/">>

\* lines 239-244: what readFile returned, or the error thrown in its place
ResourceResult(r) ==
    IF r.ok
    THEN [error |-> "none", content |-> r.content, file |-> r.file]
    ELSE [error |-> "ResourceReadFailure", content |-> <<>>, file |-> r.file]

\* readResourceByUri: error is "InvalidURI" when the prefix test fails,
\* "ResourceReadFailure" when readFile throws, "none" otherwise; file is the
\* path handed to readFile, <<>> when no filesystem access was made
readResourceByUri(F, X, uri) ==
    IF ~StartsWith(uri, SKILL_SCHEME)
    THEN [error |-> "InvalidURI", content |-> <<>>, file |-> <<>>]
    ELSE ResourceResult(
            readFile(F, X, join(<<USER_SKILLS_DIR, Substring(uri, Len(SKILL_SCHEME))>>)))

\* ------------------------------------------------------------------------
\* Description Extractor
\* ------------------------------------------------------------------------
IsSpace(c) == c \in {" ", "\t", "\r", "\n"}

RECURSIVE TrimStart(_)
TrimStart(s) == IF s # <<>> /\ IsSpace(Head(s)) THEN TrimStart(Tail(s)) ELSE s

RECURSIVE TrimEnd(_)
TrimEnd(s) ==
    IF s # <<>> /\ IsSpace(s[Len(s)]) THEN TrimEnd(SubSeq(s, 1, Len(s) - 1)) ELSE s

\* String.prototype.trim
Trim(s) == TrimEnd(TrimStart(s))

\* s.slice(1, -1)
SliceInner(s) == SubSeq(s, 2, Len(s) - 1)

FRONT_MATTER_DELIMITER == <<"-","-","-">>
DESCRIPTION_KEY == <<"d","e","s","c","r","i","p","t","i","o","n",":">>
maxLength == 100

\* name.replace(/[-_]/g, ' ')
SpacedName(name) == [i \in DOMAIN name |-> IF name[i] \in {"-", "_"} THEN " " ELSE name[i]]

\* the name derived from the path, used when the document has no content
DescriptionFromPath(filepath) ==
    SpacedName(Last(Split(StripSuffix(StripSuffix(filepath, SLASH_SKILL_MD), DOT_MD), "/")))

\* lines.findIndex(line => line.trim()), 1-based, 0 when there is none
FirstNonEmptyLineIdx(lines) ==
    IF \E i \in DOMAIN lines : Trim(lines[i]) # <<>>
    THEN CHOOSE i \in DOMAIN lines :
            /\ Trim(lines[i]) # <<>>
            /\ \A j \in 1..(i - 1) : Trim(lines[j]) = <<>>
    ELSE 0

\* (.+)$ without the m flag: the value matches on one line only
SingleLine(value) ==
    IF \E i \in DOMAIN value : value[i] \in {"\r", "\n"} THEN <<>> ELSE value

\* line.match(/^description:\s*(.+)$/i): the captured value, <<>> when the
\* line does not match
DescriptionMatch(line) ==
    IF /\ Len(line) >= Len(DESCRIPTION_KEY)
       /\ ToLowerCase(SubSeq(line, 1, Len(DESCRIPTION_KEY))) = DESCRIPTION_KEY
    THEN SingleLine(TrimStart(Substring(line, Len(DESCRIPTION_KEY))))
    ELSE <<>>

\* quotes removed when the value starts or ends with a quote character
Unquote_eitherSide(desc) ==
    IF \E q \in {"\"", "'"} : StartsWith(desc, <<q>>) \/ EndsWith(desc, <<q>>)
    THEN SliceInner(desc)
    ELSE desc

\* lines 278-281: matching quotes around desc are removed
Unquote(desc) ==
    IF \/ (StartsWith(desc, <<"\"">>) /\ EndsWith(desc, <<"\"">>))
       \/ (StartsWith(desc, <<"'">>) /\ EndsWith(desc, <<"'">>))
    THEN SliceInner(desc)
    ELSE desc

\* lines 276-282: trim the captured value and remove matching quotes
StripQuotes(value) == Unquote(Trim(value))

RECURSIVE FrontMatterDescription(_, _)

\* lines 268-283 for the trimmed line i of the front-matter
FrontMatterLine(lines, i, line) ==
    IF line = FRONT_MATTER_DELIMITER THEN [found |-> FALSE, desc |-> <<>>]
    ELSE IF DescriptionMatch(line) # <<>>
    THEN [found |-> TRUE, desc |-> StripQuotes(DescriptionMatch(line))]
    ELSE FrontMatterDescription(lines, i + 1)

\* lines 267-284: scan the front-matter from line i on; found is FALSE when
\* the block ends (or the document ends) without a description line
FrontMatterDescription(lines, i) ==
    IF i > Len(lines) THEN [found |-> FALSE, desc |-> <<>>]
    ELSE FrontMatterLine(lines, i, Trim(lines[i]))

\* lines 297-305: the index of the first line after a closed front-matter
\* block, 1 when there is no closed block
ContentStartIdx(lines, first) ==
    IF first > 0 /\ Trim(lines[first]) = FRONT_MATTER_DELIMITER
    THEN IF \E i \in (first + 1)..Len(lines) : Trim(lines[i]) = FRONT_MATTER_DELIMITER
         THEN 1 + CHOOSE i \in (first + 1)..Len(lines) :
                    /\ Trim(lines[i]) = FRONT_MATTER_DELIMITER
                    /\ \A j \in (first + 1)..(i - 1) : Trim(lines[j]) # FRONT_MATTER_DELIMITER
         ELSE 1
    ELSE 1

RECURSIVE ContentDescription(_, _, _)

\* lines 309-328 for the trimmed line i of the content
ContentLine(lines, i, filepath, line) ==
    IF line = <<>> THEN ContentDescription(lines, i + 1, filepath)
    ELSE IF StartsWith(line, <<"#", " ">>) THEN Trim(Substring(line, 2))
    ELSE IF StartsWith(line, <<"#", "#", " ">>) THEN Trim(Substring(line, 3))
    ELSE IF Len(line) > maxLength
    THEN SubSeq(line, 1, maxLength) \o <<".", ".", ".">>
    ELSE line

\* lines 308-335: the first non-blank line from i on, as a heading text or
\* as a (truncated) plain line
ContentDescription(lines, i, filepath) ==
    IF i > Len(lines) THEN DescriptionFromPath(filepath)
    ELSE ContentLine(lines, i, filepath, Trim(lines[i]))

\* an extractor that never looks for a front-matter
FrontMatterOf_none(lines, first) == [found |-> FALSE, desc |-> <<>>]

\* lines 265-285: the description of the front-matter, when the first
\* non-empty line opens one
FrontMatterOf(lines, first) ==
    IF first > 0 /\ Trim(lines[first]) = FRONT_MATTER_DELIMITER
    THEN FrontMatterDescription(lines, first + 1)
    ELSE [found |-> FALSE, desc |-> <<>>]

\* the choice between the sources of the description: fm is the front-matter
\* result, first the index of the first non-empty line
DescriptionOf(lines, first, fm, filepath) ==
    IF Len(lines) = 0 THEN DescriptionFromPath(filepath)
    ELSE IF fm.found THEN fm.desc
    ELSE IF first = 0 THEN DescriptionFromPath(filepath)
    ELSE ContentDescription(lines, ContentStartIdx(lines, first), filepath)

DescriptionFrom(lines, first, filepath) ==
    DescriptionOf(lines, first, FrontMatterOf(lines, first), filepath)

DescriptionOfLines(lines, filepath) ==
    DescriptionFrom(lines, FirstNonEmptyLineIdx(lines), filepath)

getSkillDescription(content, filepath) == DescriptionOfLines(Split(content, "\n"), filepath)

\* ------------------------------------------------------------------------
\* Resource Indexer
\* ------------------------------------------------------------------------
\* the characters of the names in the order of their UTF-16 code units
CharOrder ==
    <<" ", "-", ".", "/", "0", "1", "2", "3", "4", "5", "6", "7", "8", "9">>
    \o UpperSeq \o <<"_">> \o LowerSeq

CodeOf(c) == CHOOSE i \in DOMAIN CharOrder : CharOrder[i] = c

RECURSIVE Precedes(_, _)
\* a < b as Array.prototype.sort compares strings by default
Precedes(a, b) ==
    IF b = <<>> THEN FALSE
    ELSE IF a = <<>> THEN TRUE
    ELSE IF Head(a) = Head(b) THEN Precedes(Tail(a), Tail(b))
    ELSE CodeOf(Head(a)) < CodeOf(Head(b))

\* x put at its place in the sorted sequence s
InsertSorted(x, s) ==
    SelectSeq(s, LAMBDA y : ~Precedes(x, y)) \o <<x>> \o SelectSeq(s, LAMBDA y : Precedes(x, y))

\* the names as readdir returned them
SortStrings_asListed(names) == names

RECURSIVE SortStrings(_)
\* line 146: mdFiles.sort()
SortStrings(names) ==
    IF names = <<>> THEN <<>>
    ELSE InsertSorted(Head(names), SortStrings(Tail(names)))

RECURSIVE IndexLoop(_, _, _, _)

\* the loop without the try block of lines 149-162: the first file that
\* cannot be read ends it
IndexStep_abort(F, X, resourcesDir, mdFiles, r) ==
    IF r.ok
    THEN <<[filename |-> Head(mdFiles),
            description |-> getSkillDescription(r.content, Head(mdFiles))]>>
         \o IndexLoop(F, X, resourcesDir, Tail(mdFiles))
    ELSE <<>>

\* lines 149-162 for one file: r is what readFile returned; a file that
\* cannot be read is logged and left out
IndexStep(F, X, resourcesDir, mdFiles, r) ==
    IF r.ok
    THEN <<[filename |-> Head(mdFiles),
            description |-> getSkillDescription(r.content, Head(mdFiles))]>>
         \o IndexLoop(F, X, resourcesDir, Tail(mdFiles))
    ELSE IndexLoop(F, X, resourcesDir, Tail(mdFiles))

\* lines 148-163: one entry per resource file that can be read
IndexLoop(F, X, resourcesDir, mdFiles) ==
    IF mdFiles = <<>> THEN <<>>
    ELSE IndexStep(F, X, resourcesDir, mdFiles,
                   readFile(F, X, join(<<resourcesDir, Head(mdFiles)>>)))

\* lines 131-163: resources is what the function has collected, threw says
\* that an error left the outer try block (a failing readdir); a failing
\* stat and a resources entry that is no directory return at once
IndexOf(F, X, ord, resourcesDir) ==
    IF ~StatOk(F, X, resourcesDir) THEN [resources |-> <<>>, threw |-> FALSE]
    ELSE IF ~IsDirectory(F, resourcesDir) THEN [resources |-> <<>>, threw |-> FALSE]
    ELSE IF ~ReaddirOk(F, X, resourcesDir) THEN [resources |-> <<>>, threw |-> TRUE]
    ELSE [resources |->
              IndexLoop(F, X, resourcesDir,
                        SortStrings(SelectSeq(readdir(F, ord, resourcesDir),
                                              LAMBDA entry : EndsWith(entry, DOT_MD)))),
          threw |-> FALSE]

\* lines 164-166: the outer catch block logs the error
IndexCaught(run) == [resources |-> run.resources, logged |-> run.threw, raised |-> FALSE]

readSkillResourcesIndexRun(F, X, ord, filepath) ==
    IndexCaught(IndexOf(F, X, ord,
        join(<<USER_SKILLS_DIR, StripSuffix(filepath, SLASH_SKILL_MD), ResourcesName>>)))

readSkillResourcesIndex(F, X, ord, filepath) ==
    readSkillResourcesIndexRun(F, X, ord, filepath).resources

\* ------------------------------------------------------------------------
\* CallTool: the skill document with the index of its resources
\* ------------------------------------------------------------------------
\* lines 98-100: what opens the section of the resources
RESOURCES_HEADING == <<"\n","\n","-","-","-","\n","\n","#","#"," ","A",
    "v","a","i","l","a","b","l","e"," ","R","e","s","o","u","r","c","e",
    "s","\n","\n","T","h","e"," ","f","o","l","l","o","w","i","n","g"," ",
    "r","e","s","o","u","r","c","e"," ","f","i","l","e","s"," ","a","r",
    "e"," ","a","v","a","i","l","a","b","l","e"," ","f","o","r"," ","t",
    "h","i","s"," ","s","k","i","l","l","."," ","E","a","c","h"," ","r",
    "e","s","o","u","r","c","e"," ","p","r","o","v","i","d","e","s"," ",
    "d","e","t","a","i","l","e","d"," ","g","u","i","d","a","n","c","e",
    " ","o","n"," ","s","p","e","c","i","f","i","c"," ","t","o","p","i",
    "c","s",".","\n","\n">>

RECURSIVE ResourceLines(_)
\* lines 103-106: one line per resource of the index
ResourceLines(resourcesIndex) ==
    IF resourcesIndex = <<>> THEN <<>>
    ELSE <<"-", " ", "*", "*">> \o StripSuffix(Head(resourcesIndex).filename, DOT_MD)
         \o <<"*", "*", ":", " ">> \o Head(resourcesIndex).description \o <<"\n">>
         \o ResourceLines(Tail(resourcesIndex))

\* the section is written whether or not there is a resource
ResourcesSection_always(resourcesIndex) ==
    RESOURCES_HEADING \o ResourceLines(resourcesIndex) \o <<"\n">>

\* lines 97-109: the section appended to the document, empty without resources
ResourcesSection(resourcesIndex) ==
    IF Len(resourcesIndex) > 0
    THEN RESOURCES_HEADING \o ResourceLines(resourcesIndex) \o <<"\n">>
    ELSE <<>>

\* a document that cannot be read is answered with the section alone
CallToolRead_lenient(F, X, ord, filename, r) ==
    [error |-> "none",
     text |-> r.content \o ResourcesSection(readSkillResourcesIndex(F, X, ord, filename))]

\* lines 86-123: r is what readSkillFile returned; its throw is caught and
\* thrown again as 'Failed to read skill file'
CallToolRead(F, X, ord, filename, r) ==
    IF r.ok
    THEN [error |-> "none",
          text |-> r.content \o ResourcesSection(readSkillResourcesIndex(F, X, ord, filename))]
    ELSE [error |-> "UnknownTool", text |-> <<>>]

\* lines 81-123: an empty filename throws 'Invalid tool name'
CallToolResult(F, X, ord, filename) ==
    IF filename = <<>> THEN [error |-> "InvalidToolName", text |-> <<>>]
    ELSE CallToolRead(F, X, ord, filename, readSkillFile(F, X, filename))

CallToolResponse(name, filename, result) ==
    [op |-> "CallTool", name |-> name, filename |-> filename,
     error |-> result.error, text |-> result.text]

callTool(F, X, ord, name, filename) ==
    CallToolResponse(name, filename, CallToolResult(F, X, ord, filename))

\* ------------------------------------------------------------------------
\* ListResources: the documents of the skills and their resources
\* ------------------------------------------------------------------------
RESOURCES_SEGMENT == ResourcesName \o SLASH

RECURSIVE ResourceEntries(_, _, _)
\* lines 204-212: one entry per resource of the index of the skill
ResourceEntries(skillPath, skillName, resourcesIndex) ==
    IF resourcesIndex = <<>> THEN <<>>
    ELSE <<[uri |-> SKILL_SCHEME \o skillName \o SLASH \o RESOURCES_SEGMENT
                    \o Head(resourcesIndex).filename,
            path |-> StripSuffix(skillPath, SKILL_MD) \o RESOURCES_SEGMENT
                     \o Head(resourcesIndex).filename,
            description |-> Head(resourcesIndex).description]>>
         \o ResourceEntries(skillPath, skillName, Tail(resourcesIndex))

\* lines 189-212 for a skill whose document was read: its own entry, then
\* the entries of its resources
SkillEntries(skillPath, skillName, content, resourcesIndex) ==
    <<[uri |-> SKILL_SCHEME \o skillName \o SLASH_SKILL_MD,
       path |-> skillPath,
       description |-> getSkillDescription(content, skillPath)]>>
    \o ResourceEntries(skillPath, skillName, resourcesIndex)

RECURSIVE AllResourcesLoop(_, _, _, _)

\* lines 187-215 for one skill: r is what readSkillFile returned; a skill
\* whose document cannot be read is logged and left out
AllResourcesStep(F, X, ord, skillFiles, r) ==
    IF r.ok
    THEN SkillEntries(Head(skillFiles), StripSuffix(Head(skillFiles), SLASH_SKILL_MD),
                      r.content, readSkillResourcesIndex(F, X, ord, Head(skillFiles)))
         \o AllResourcesLoop(F, X, ord, Tail(skillFiles))
    ELSE AllResourcesLoop(F, X, ord, Tail(skillFiles))

\* the for loop of scanAllResources
AllResourcesLoop(F, X, ord, skillFiles) ==
    IF skillFiles = <<>> THEN <<>>
    ELSE AllResourcesStep(F, X, ord, skillFiles, readSkillFile(F, X, Head(skillFiles)))

scanAllResources(F, X, ord) ==
    AllResourcesLoop(F, X, ord, scanSkillsDirectory(F, X, ord))

\* part_003 line 135: uri.replace(/^skill:\/\//, '').replace(/\.md$/, '')
DisplayName(uri) ==
    StripSuffix(IF StartsWith(uri, SKILL_SCHEME) THEN Substring(uri, Len(SKILL_SCHEME)) ELSE uri,
                DOT_MD)

\* part_003 lines 133-138: what the handler returns of every resource
Listed(allResources) ==
    [i \in DOMAIN allResources |->
        [uri |-> allResources[i].uri,
         name |-> DisplayName(allResources[i].uri),
         description |-> allResources[i].description,
         mimeType |-> "text/markdown"]]

\* part_003 lines 129-143: scanAllResources catches every error itself, the
\* catch block of the handler is never entered
listResources(F, X, ord) ==
    [op |-> "ListResources", resources |-> Listed(scanAllResources(F, X, ord))]

\* ------------------------------------------------------------------------
\* Script Executor
\* ------------------------------------------------------------------------
\* the script path joined as given, no leading segment removed
StripLeadingParents_keep(s) == s

RECURSIVE StripLeadingParents(_)
\* s.replace(/^(\.\.(\/|\\|$))+/, '')
StripLeadingParents(s) ==
    IF s = DOTDOT THEN <<>>
    ELSE IF Len(s) >= 3 /\ SubSeq(s, 1, 2) = DOTDOT /\ s[3] \in {"/", "\\"}
    THEN StripLeadingParents(Substring(s, 3))
    ELSE s

RECURSIVE MatchSkillEntry(_, _, _, _, _)

\* lines 403-412 for one entry of the skills root
MatchEntryPath(F, X, entries, skillName, fallback, entryPath) ==
    IF ~StatOk(F, X, entryPath) THEN fallback
    ELSE IF /\ IsDirectory(F, entryPath)
            /\ ToLowerCase(ReplaceNonAlnumRuns(Head(entries), 1)) = ToLowerCase(skillName)
    THEN entryPath
    ELSE MatchSkillEntry(F, X, Tail(entries), skillName, fallback)

\* the scan of the skills root for a directory whose normalised name equals
\* the skill name; fallback is returned when nothing matches or on a throw
MatchSkillEntry(F, X, entries, skillName, fallback) ==
    IF entries = <<>> THEN fallback
    ELSE MatchEntryPath(F, X, entries, skillName, fallback,
                        join(<<USER_SKILLS_DIR, Head(entries)>>))

\* lines 391-418: the choice between the directory named as the skill, the
\* one with hyphens for underscores, and a directory found by scanning
SkillDirAmong(F, X, ord, skillName, skillDir, alternativeDir) ==
    IF existsSync(F, X, skillDir) THEN skillDir
    ELSE IF existsSync(F, X, alternativeDir) THEN alternativeDir
    ELSE IF ~ReaddirOk(F, X, USER_SKILLS_DIR) THEN skillDir
    ELSE MatchSkillEntry(F, X, readdir(F, ord, USER_SKILLS_DIR), skillName, skillDir)

\* lines 387-418: the skill directory the executor settles on
ResolveSkillDir(F, X, ord, skillName) ==
    SkillDirAmong(F, X, ord, skillName,
                  join(<<USER_SKILLS_DIR, skillName>>),
                  join(<<USER_SKILLS_DIR, ReplaceChar(skillName, "_", "-")>>))

\* the security check of line 430
WithinSkillDir(fullScriptPath, skillDir) == StartsWith(fullScriptPath, skillDir)

\* lines 429-437: the checks on the resolved script path
CheckedScript(F, X, skillDir, fullScriptPath) ==
    IF ~WithinSkillDir(fullScriptPath, skillDir)
    THEN [error |-> "PathEscape", skillDir |-> skillDir, script |-> <<>>]
    ELSE IF ~existsSync(F, X, fullScriptPath)
    THEN [error |-> "ScriptNotFound", skillDir |-> skillDir, script |-> <<>>]
    ELSE [error |-> "none", skillDir |-> skillDir, script |-> fullScriptPath]

\* lines 420-437, with the skill directory and the stripped script path
ScriptInSkillDir(F, X, skillDir, normalizedScriptPath) ==
    IF ~existsSync(F, X, skillDir)
    THEN [error |-> "SkillNotFound", skillDir |-> skillDir, script |-> <<>>]
    ELSE CheckedScript(F, X, skillDir, resolve(skillDir, normalizedScriptPath))

\* executeSkillScript up to the spawn: the error it throws, or "none" with
\* the script handed to bash and the working directory
executeSkillScript(F, X, ord, skillName, scriptPath) ==
    ScriptInSkillDir(F, X, ResolveSkillDir(F, X, ord, skillName),
                     StripLeadingParents(normalize(scriptPath)))

\* ------------------------------------------------------------------------
\* The environment: other processes change the skills directory
\* ------------------------------------------------------------------------
FsCreate(i) ==
    /\ resp = Idle
    /\ i \notin present
    /\ \A j \in present : Entry[j].path # Entry[i].path
    /\ Entry[i].parent = "" \/ (Entry[i].parent \in present /\ Entry[Entry[i].parent].kind = "dir")
    /\ Cardinality(present) + Cardinality(failing) < MaxNodes
    /\ present' = present \cup {i}
    /\ UNCHANGED <<failing, listing, resp, calls, configs>>

FsRemove(i) ==
    /\ resp = Idle
    /\ i \in present
    /\ \A j \in present : Entry[j].parent # i
    /\ present' = present \ {i}
    /\ failing' = {x \in failing : x.id # i}
    /\ UNCHANGED <<listing, resp, calls, configs>>

\* system calls on entry i start to fail: reads (noread), or every call that
\* resolves the entry (nostat)
FsFault(i, k) ==
    /\ resp = Idle
    /\ i \in present
    /\ \A x \in failing : x.id # i
    /\ Cardinality(failing) < MaxFaults
    /\ Cardinality(present) + Cardinality(failing) < MaxNodes
    /\ failing' = failing \cup {[id |-> i, kind |-> k]}
    /\ UNCHANGED <<present, listing, resp, calls, configs>>

FsRepair(i) ==
    /\ resp = Idle
    /\ \E x \in failing : x.id = i
    /\ failing' = {x \in failing : x.id # i}
    /\ UNCHANGED <<present, listing, resp, calls, configs>>

FsReorder(l) ==
    /\ resp = Idle
    /\ l # listing
    /\ listing' = l
    /\ UNCHANGED <<present, failing, resp, calls, configs>>

\* the response has been delivered to the client, once the call has settled
Deliver ==
    /\ resp # Idle
    /\ resp.op = "executeSkillScript" => resp.settled # "pending"
    /\ resp' = Idle
    /\ UNCHANGED <<present, failing, listing, calls, configs>>

\* ------------------------------------------------------------------------
\* Inputs of the requests
\* ------------------------------------------------------------------------
fooUnderBar == <<"f","o","o","_","b","a","r">>
fooUnderMd == <<"f","o","o","_","m","d">>
skillName_ == <<"s","k","i","l","l">>
team == <<"t","e","a","m">>
etc == <<"e","t","c">>
passwd == <<"p","a","s","s","w","d">>

\* the relative path segs[1]/segs[2]/...
Rel(segs) == JoinWith(segs, "/")

PathInputs ==
    { Rel(<<foo, SKILL_MD>>),
      Rel(<<fooDashBar, SKILL_MD>>),
      Rel(<<team, fooDashBar, SKILL_MD>>),
      Rel(<<FooMixBar, SKILL_MD>>),
      Rel(<<foo, fooDotMd, SKILL_MD>>),
      Rel(<<team, fooDotMd>>),
      SKILL_MD }

ToolNameInputs == {foo, fooUnderBar, fooUnderMd, skillName_}

Uri(segs) == SKILL_SCHEME \o Rel(segs)

\* an absent uri and the empty string take the same branch of the handler
NoUri == <<>>

UriInputs ==
    { NoUri,
      Rel(<<foo, SKILL_MD>>),
      Uri(<<foo, SKILL_MD>>),
      Uri(<<foo>>),
      Uri(<<foo, DOTDOT, fooDashBar, SKILL_MD>>),
      Uri(<<foo, DOTDOT, DOTDOT, evil_sh>>),
      Uri(<<foo, DOTDOT, DOTDOT, etc, passwd>>) }

\* the skill names: a directory of that name, a name with an underscore, and
\* the name of a file of the skills root
SkillNameInputs == {foo, fooUnderBar, SKILL_MD}

ScriptPathInputs ==
    { evil_sh,
      DOTDOT,
      Rel(<<DOTDOT, DOTDOT, evil_sh>>),
      Rel(<<DOTDOT, fooDashBar, x_sh>>),
      join(<<USER_SKILLS_DIR, fooDashBar, x_sh>>),
      join(<<AppDir, evil_sh>>) }

\* what the child process does after the spawn: it fails to launch, or it
\* writes to stdout and closes with a code
\* the code of a child that reports no numeric exit code (null)
NoCode == -1
ChildCodes == {NoCode, 0, 1}
\* the chunks the 'data' events of stdout carry
ChildOutputs == {<<" ", "o">>, <<"k", "\n">>}
\* the most characters a child writes
MaxOutput == 4

\* ------------------------------------------------------------------------
\* The operations
\* ------------------------------------------------------------------------
\* what the caller of scanSkillsDirectory gets
ScanResponse(run) ==
    [op |-> "scanSkillsDirectory", raised |-> run.raised, logged |-> run.logged,
     result |-> IF run.raised THEN <<>> ELSE run.results]

\* a call of the exported scanSkillsDirectory (the list and check commands)
ScanSkillsDirectory ==
    /\ resp = Idle
    /\ resp' = ScanResponse(scanSkillsDirectoryRun(fs, faults, dirOrder))
    /\ UNCHANGED <<present, failing, listing, calls, configs>>

FilenameToToolName(path) ==
    /\ resp = Idle
    /\ resp' = [op |-> "filenameToToolName", path |-> path,
                result |-> filenameToToolName(path)]
    /\ UNCHANGED <<present, failing, listing, calls, configs>>

ToolNameToFilename(toolName) ==
    /\ resp = Idle
    /\ resp' = [op |-> "toolNameToFilename", toolName |-> toolName,
                result |-> toolNameToFilename(fs, faults, dirOrder, toolName)]
    /\ UNCHANGED <<present, failing, listing, calls, configs>>

RECURSIVE ListToolsLoop(_, _, _)

\* the loop without the try block of lines 56-70: the first document that
\* cannot be read ends it
ListToolsStep_abort(F, X, skillFiles, r) ==
    IF r.ok
    THEN <<[name |-> filenameToToolName(Head(skillFiles)),
            description |-> getSkillDescription(r.content, Head(skillFiles)),
            inputSchema |-> [type |-> "object", properties |-> {}, required |-> <<>>]]>>
         \o ListToolsLoop(F, X, Tail(skillFiles))
    ELSE <<>>

\* lines 55-71 for one skill file: r is what readSkillFile returned; a file
\* that cannot be read is logged and left out
ListToolsStep(F, X, skillFiles, r) ==
    IF r.ok
    THEN <<[name |-> filenameToToolName(Head(skillFiles)),
            description |-> getSkillDescription(r.content, Head(skillFiles)),
            inputSchema |-> [type |-> "object", properties |-> {}, required |-> <<>>]]>>
         \o ListToolsLoop(F, X, Tail(skillFiles))
    ELSE ListToolsLoop(F, X, Tail(skillFiles))

\* the for loop of the list_tools handler: one entry per readable skill
ListToolsLoop(F, X, skillFiles) ==
    IF skillFiles = <<>> THEN <<>>
    ELSE ListToolsStep(F, X, skillFiles, readSkillFile(F, X, Head(skillFiles)))

ListToolsResponse(F, X, run) ==
    [op |-> "ListTools", raised |-> run.raised,
     tools |-> IF run.raised THEN <<>> ELSE ListToolsLoop(F, X, run.results)]

\* the list_tools handler; an error raised by the scan is not caught here
ListTools ==
    /\ resp = Idle
    /\ resp' = ListToolsResponse(fs, faults, scanSkillsDirectoryRun(fs, faults, dirOrder))
    /\ UNCHANGED <<present, failing, listing, calls, configs>>

ReadResourceResponse(uri, r) ==
    IF uri = NoUri
    THEN [op |-> "ReadResource", uri |-> uri, error |-> "MissingURI",
          text |-> <<>>, mimeType |-> "none", file |-> <<>>]
    ELSE [op |-> "ReadResource", uri |-> uri, error |-> r.error,
          text |-> r.content,
          mimeType |-> IF r.error = "none" THEN "text/markdown" ELSE "none",
          file |-> r.file]

\* the resources/read handler
ReadResource(uri) ==
    /\ resp = Idle
    /\ resp' = ReadResourceResponse(uri, readResourceByUri(fs, faults, uri))
    /\ UNCHANGED <<present, failing, listing, calls, configs>>

\* the call before any child has been spawned: r is what the checks returned
Unspawned(skillName, scriptPath, r) ==
    [op |-> "executeSkillScript", skillName |-> skillName,
     scriptPath |-> scriptPath, error |-> r.error,
     skillDir |-> r.skillDir, spawned |-> <<>>,
     settled |-> "rejected", stdout |-> <<>>, exitCode |-> 0,
     child |-> "none", code |-> NoCode, buffer |-> <<>>]

\* lines 440-444: the promise is created and bash is spawned on the script
Spawned(base, script) ==
    [base EXCEPT !.spawned = script, !.settled = "pending", !.child = "running"]

\* the call up to its first await: the error of a failed check, or the spawn
Started(skillName, scriptPath, r) ==
    IF r.error # "none"
    THEN Unspawned(skillName, scriptPath, r)
    ELSE Spawned(Unspawned(skillName, scriptPath, r), r.script)

\* executeSkillScript: the checks and the spawn; the promise it returns is
\* settled by the child's 'close' or 'error' event
ExecuteSkillScript(skillName, scriptPath) ==
    /\ resp = Idle
    /\ resp' = Started(skillName, scriptPath,
                       executeSkillScript(fs, faults, dirOrder, skillName, scriptPath))
    /\ UNCHANGED <<present, failing, listing, calls, configs>>

\* a promise settles once: resolve and reject of a settled promise do nothing
\* line 461: code || 0
ExitCodeOf_raw(code) == code

ExitCodeOf(code) == IF code \in {NoCode, 0} THEN 0 ELSE code

\* lines 458-462: resolve({stdout: stdout.trim(), stderr, exitCode: code || 0})
Resolve(r, code) ==
    IF r.settled = "pending"
    THEN [r EXCEPT !.settled = "resolved", !.stdout = Trim(r.buffer),
                   !.exitCode = ExitCodeOf(code)]
    ELSE r

\* line 466: reject(new Error('Failed to execute script: ...'))
Reject(r) ==
    IF r.settled = "pending"
    THEN [r EXCEPT !.settled = "rejected", !.error = "LaunchFailure"]
    ELSE r

\* lines 449-451: a 'data' event of the child's stdout
ChildData(o) ==
    /\ resp.op = "executeSkillScript"
    /\ resp.child = "running"
    /\ Len(resp.buffer) + Len(o) <= MaxOutput
    /\ resp' = [resp EXCEPT !.buffer = resp.buffer \o o]
    /\ UNCHANGED <<present, failing, listing, calls, configs>>

\* lines 465-467: the child's 'error' event
ChildError ==
    /\ resp.op = "executeSkillScript"
    /\ resp.child = "running"
    /\ resp' = Reject([resp EXCEPT !.child = "failed"])
    /\ UNCHANGED <<present, failing, listing, calls, configs>>

\* lines 457-463: the child's 'close' event, which the runtime also emits
\* after the 'error' of a failed launch
ChildClose(code) ==
    /\ resp.op = "executeSkillScript"
    /\ resp.child \in {"running", "failed"}
    /\ resp' = Resolve([resp EXCEPT !.child = "closed", !.code = code], code)
    /\ UNCHANGED <<present, failing, listing, calls, configs>>

\* the events of the spawned child
Child ==
    \/ \E o \in ChildOutputs : ChildData(o)
    \/ ChildError
    \/ \E code \in ChildCodes : ChildClose(code)

Requests ==
    \/ ScanSkillsDirectory
    \/ /\ resp = Idle
       /\ \E path \in PathInputs \cup Range(scanSkillsDirectory(fs, faults, dirOrder)) :
             FilenameToToolName(path)
    \/ \E toolName \in ToolNameInputs : ToolNameToFilename(toolName)
    \/ ListTools
    \/ \E uri \in UriInputs : ReadResource(uri)
    \/ \E skillName \in SkillNameInputs, scriptPath \in ScriptPathInputs :
          ExecuteSkillScript(skillName, scriptPath)

Init ==
    /\ present = {}
    /\ failing = {}
    /\ listing = "ascending"
    /\ resp = Idle
    /\ calls = <<>>
    /\ configs = <<>>

Environment ==
    \/ \E i \in EntryIds : FsCreate(i)
    \/ \E i \in EntryIds : FsRemove(i)
    \/ \E i \in EntryIds, k \in FaultKinds : FsFault(i, k)
    \/ \E i \in EntryIds : FsRepair(i)
    \/ \E l \in Listings : FsReorder(l)

Next ==
    \/ Environment
    \/ Requests
    \/ Child
    \/ Deliver

Spec == Init /\ [][Next]_vars

\* ------------------------------------------------------------------------
\* The description extractor on its own: documents drawn from bounded sets
\* ------------------------------------------------------------------------
\* the largest number of lines of an enumerated document
MaxLines == 4

DescriptionLine == <<"d","e","s","c","r","i","p","t","i","o","n",":"," ","\"","G","o","\"">>
HeadingLine == <<"#", " ", "H">>
SubHeadingLine == <<"#", "#", " ", "S">>
TextLine == <<"t">>
\* a plain line of 101 characters, one more than maxLength
LongLine == [i \in 1..(maxLength + 1) |-> "x"]

\* the lines the enumerated documents are made of
LineInputs ==
    {<<>>, FRONT_MATTER_DELIMITER, DescriptionLine, HeadingLine,
     SubHeadingLine, TextLine}

\* spellings of the key of a description line
DescriptionKeys == {DESCRIPTION_KEY, <<"D","e","s","c","r","i","p","t","i","o","n",":">>, <<"D","E","S","C","R","I","P","T","I","O","N",":">>}

\* values of a description line: quoted on both sides, on one side, with
\* two kinds of quotes, unquoted, and quote characters alone
DescriptionValues ==
    {<<"\"","G","o","\"">>, <<"'","G","o","'">>, <<"\"","G","o">>, <<"G","o","'">>,
     <<"\"","G","o","'">>, <<"G","o">>, <<"\"">>, <<"\"","\"">>, <<"'","\"">>,
     <<"\"","G","o","\""," "," ">>}

\* what follows the description line: nothing, the closing delimiter, the
\* closing delimiter and a heading
FrontMatterTails ==
    {<<>>, <<FRONT_MATTER_DELIMITER>>, <<FRONT_MATTER_DELIMITER, HeadingLine>>}

\* the documents of at most MaxLines lines over LineInputs
LineDocuments ==
    {JoinWith(ls, "\n") : ls \in UNION {[1..n -> LineInputs] : n \in 0..MaxLines}}

\* the documents that open a front-matter with one description line
FrontMatterDocuments ==
    {JoinWith(<<FRONT_MATTER_DELIMITER, k \o <<" ">> \o v>> \o t, "\n") :
        k \in DescriptionKeys, v \in DescriptionValues, t \in FrontMatterTails}

\* the documents with a line longer than maxLength
LongDocuments ==
    {JoinWith(ls, "\n") :
        ls \in {<<LongLine>>, <<<<>>, LongLine>>, <<LongLine, HeadingLine>>,
                <<FRONT_MATTER_DELIMITER, FRONT_MATTER_DELIMITER, LongLine>>}}

Documents == LineDocuments \cup FrontMatterDocuments \cup LongDocuments

\* the paths the description falls back to
DescriptionPathInputs == {join(<<fooDashBar, SKILL_MD>>), fooDotMd}

\* getSkillDescription(content, filepath) called on its own
GetSkillDescription(content, filepath) ==
    /\ resp = Idle
    /\ resp' = [op |-> "getSkillDescription", content |-> content,
                filepath |-> filepath,
                result |-> getSkillDescription(content, filepath)]
    /\ UNCHANGED <<present, failing, listing, calls, configs>>

NextDesc ==
    \/ \E content \in Documents, filepath \in DescriptionPathInputs :
          GetSkillDescription(content, filepath)
    \/ Deliver

SpecDesc == Init /\ [][NextDesc]_vars

\* ------------------------------------------------------------------------
\* The resource requests over a library that holds the skill foo
\* ------------------------------------------------------------------------
\* the largest number of entries at and below foo/resources
MaxResources == 5

\* the installed skill: the root, the directory foo and its SKILL.md
SkillFooIds == {"skills", "skills/foo", "skills/foo/SKILL.md"}

ResourceIds == DOMAIN ResourceCandidates

\* the entries that come and go while the resource requests are served
ResEnvIds ==
    ResourceIds \cup {"skills/foo/SKILL.md", "skills/SKILL.md",
                      "skills/foo/foo.md", "skills/foo/foo.md/SKILL.md",
                      "SKILL.md (outside)"}

\* the entries whose system calls may fail
ResFaultIds ==
    {"skills/foo/SKILL.md", "skills/foo/resources",
     "skills/foo/resources/a.md", "skills/foo/resources/B.md"}

ResCreate(i) ==
    /\ resp = Idle
    /\ i \notin present
    /\ \A j \in present : Entry[j].path # Entry[i].path
    /\ Entry[i].parent = "" \/ (Entry[i].parent \in present /\ Entry[Entry[i].parent].kind = "dir")
    /\ i \in ResourceIds => Cardinality(present \cap ResourceIds) < MaxResources
    /\ present' = present \cup {i}
    /\ UNCHANGED <<failing, listing, resp, calls, configs>>

ResFault(i, k) ==
    /\ resp = Idle
    /\ i \in present
    /\ \A x \in failing : x.id # i
    /\ Cardinality(failing) < MaxFaults
    /\ failing' = failing \cup {[id |-> i, kind |-> k]}
    /\ UNCHANGED <<present, listing, resp, calls, configs>>

\* the paths handed to the Resource Indexer: the skill foo, a SKILL.md in
\* the skills root, a skill that is not installed
IndexPathInputs == {join(<<foo, SKILL_MD>>), SKILL_MD, join(<<fooDashBar, SKILL_MD>>)}

IndexResponse(filepath, run) ==
    [op |-> "readSkillResourcesIndex", filepath |-> filepath,
     resources |-> run.resources, logged |-> run.logged, raised |-> run.raised]

\* readSkillResourcesIndex(filepath) called on its own
ReadSkillResourcesIndex(filepath) ==
    /\ resp = Idle
    /\ resp' = IndexResponse(filepath, readSkillResourcesIndexRun(fs, faults, dirOrder, filepath))
    /\ UNCHANGED <<present, failing, listing, calls, configs>>

\* the tool names of the skill foo, of a SKILL.md in the skills root and of
\* a skill that is not installed, and a name that is a parent segment
CallToolNames == {foo, <<"s","k","i","l","l">>, fooUnderBar, DOTDOT}

\* the tools/call handler
CallTool(name) ==
    /\ resp = Idle
    /\ resp' = callTool(fs, faults, dirOrder, name,
                        toolNameToFilename(fs, faults, dirOrder, name))
    /\ UNCHANGED <<present, failing, listing, calls, configs>>

\* the resources/list handler
ListResources ==
    /\ resp = Idle
    /\ resp' = listResources(fs, faults, dirOrder)
    /\ UNCHANGED <<present, failing, listing, calls, configs>>

RequestsRes ==
    \/ \E filepath \in IndexPathInputs : ReadSkillResourcesIndex(filepath)
    \/ \E name \in CallToolNames : CallTool(name)
    \/ ListTools
    \/ ListResources
    \/ /\ resp = Idle
       /\ \E r \in Range(listResources(fs, faults, dirOrder).resources) : ReadResource(r.uri)

InitRes ==
    /\ present = SkillFooIds
    /\ failing = {}
    /\ listing = "ascending"
    /\ resp = Idle
    /\ calls = <<>>
    /\ configs = <<>>

EnvironmentRes ==
    \/ \E i \in ResEnvIds : ResCreate(i)
    \/ \E i \in ResEnvIds : FsRemove(i)
    \/ \E i \in ResFaultIds, k \in FaultKinds : ResFault(i, k)
    \/ \E i \in ResFaultIds : FsRepair(i)
    \/ \E l \in Listings : FsReorder(l)

NextRes ==
    \/ EnvironmentRes
    \/ RequestsRes
    \/ Deliver

SpecRes == InitRes /\ [][NextRes]_vars

\* ------------------------------------------------------------------------
\* The add command (src/commands/add.ts)
\* ------------------------------------------------------------------------
\* s.includes(sub)
Includes(s, sub) ==
    \E i \in 1..(Len(s) - Len(sub) + 1) : SubSeq(s, i, i + Len(sub) - 1) = sub

RAW_HOST == <<"r","a","w",".","g","i","t","h","u","b","u","s","e","r","c",
    "o","n","t","e","n","t",".","c","o","m">>

RAW_PREFIX == <<"h","t","t","p","s",":","/","/","r","a","w",".","g","i",
    "t","h","u","b","u","s","e","r","c","o","n","t","e","n","t",".","c",
    "o","m","/">>

GITHUB_COM == <<"g","i","t","h","u","b",".","c","o","m">>

BLOB == <<"b","l","o","b">>

\* /github\.com\/([^/]+\/[^/]+)\/blob\/(.+)/ matches with 'github.com' at the
\* end of the piece k of the url split at '/'
BlobMatchAt(parts, k) ==
    /\ k + 4 <= Len(parts)
    /\ EndsWith(parts[k], GITHUB_COM)
    /\ parts[k + 1] # <<>>
    /\ parts[k + 2] # <<>>
    /\ parts[k + 3] = BLOB
    /\ JoinWith(SubSeq(parts, k + 4, Len(parts)), "/") # <<>>

\* the url of the first match: repo and path behind the raw host
RawOfBlob(parts, k) ==
    RAW_PREFIX \o parts[k + 1] \o SLASH \o parts[k + 2] \o SLASH
    \o JoinWith(SubSeq(parts, k + 4, Len(parts)), "/")

\* lines 23-33: the blob pattern applied to the pieces of the url
ConvertBlob(url, parts) ==
    IF \E k \in DOMAIN parts : BlobMatchAt(parts, k)
    THEN RawOfBlob(parts, CHOOSE k \in DOMAIN parts :
                              /\ BlobMatchAt(parts, k)
                              /\ \A j \in 1..(k - 1) : ~BlobMatchAt(parts, j))
    ELSE url

\* convertToRawUrl
convertToRawUrl(url) ==
    IF Includes(url, RAW_HOST) THEN url ELSE ConvertBlob(url, Split(url, "/"))

\* /\/([^/]+)\/SKILL\.md/ matches with the group at the piece j
NameMatchAt(parts, j) ==
    /\ j >= 2 /\ j + 1 <= Len(parts)
    /\ parts[j] # <<>>
    /\ StartsWith(parts[j + 1], SKILL_MD)

\* lines 42-58 on the pieces of the url: the piece before the first piece
\* 'SKILL.md' unless that is the first piece, else the group of the pattern,
\* else 'skill'
SkillNameOfParts(parts) ==
    IF \E i \in 2..Len(parts) : parts[i] = SKILL_MD /\ \A h \in 1..(i - 1) : parts[h] # SKILL_MD
    THEN parts[(CHOOSE i \in 2..Len(parts) :
                    parts[i] = SKILL_MD /\ \A h \in 1..(i - 1) : parts[h] # SKILL_MD) - 1]
    ELSE IF \E j \in DOMAIN parts : NameMatchAt(parts, j)
    THEN parts[CHOOSE j \in DOMAIN parts :
                  NameMatchAt(parts, j) /\ \A h \in 1..(j - 1) : ~NameMatchAt(parts, h)]
    ELSE DefaultSkillName

\* extractSkillName
extractSkillName(url) == SkillNameOfParts(Split(url, "/"))

\* the urls given to the command: a blob url, a raw url, a url whose last
\* piece only begins with SKILL.md, and a url without SKILL.md
BlobUrl == <<"h","t","t","p","s",":","/","/","g","i","t","h","u","b",".",
    "c","o","m","/","o","/","r","/","b","l","o","b","/","m","/","f","o",
    "o","/","S","K","I","L","L",".","m","d">>

RawUrl == <<"h","t","t","p","s",":","/","/","r","a","w",".","g","i","t",
    "h","u","b","u","s","e","r","c","o","n","t","e","n","t",".","c","o",
    "m","/","o","/","r","/","m","/","s","k","i","l","l","/","S","K","I",
    "L","L",".","m","d">>

SuffixedUrl == <<"h","t","t","p","s",":","/","/","x",".","y","/","f","o",
    "o","/","S","K","I","L","L",".","m","d",".","t","x","t">>

PlainUrl == <<"h","t","t","p","s",":","/","/","x",".","y","/","s",".","m",
    "d">>
UrlInputs == {BlobUrl, RawUrl, SuffixedUrl, PlainUrl}

\* the entries the add command and other processes create and remove
AddIds ==
    {"skills", "skills/foo", "skills/foo/SKILL.md", "skills/foo/SKILL.md (downloaded)"}
    \cup DOMAIN AddCandidates

\* the entries another process puts there
AddEnvIds == {"skills", "skills/foo", "skills/foo/SKILL.md", "skills/skill", "skills/skill/SKILL.md"}

\* mkdirSync(p, {recursive: true}) for a directory of the skills root or
\* the root itself: the directories missing on the way are created
MkdirP(P, p) ==
    P \cup {i \in AddIds : /\ Entry[i].kind = "dir"
                           /\ IsPathPrefix(Entry[i].path, p)
                           /\ Entry[i].path \notin DOMAIN FsOf(P)}

\* writeFileSync(p, content): the file at p is replaced by one with content
WriteFile(P, p, content) ==
    (P \ {i \in P : Entry[i].path = p})
    \cup {i \in AddIds : Entry[i].path = p /\ Entry[i].kind = "file"
                         /\ Entry[i].content = content}

\* a file another process creates or removes, at any moment of the command
OtherCreate(i) ==
    /\ i \notin present
    /\ \A j \in present : Entry[j].path # Entry[i].path
    /\ Entry[i].parent = "" \/ Entry[i].parent \in present
    /\ present' = present \cup {i}
    /\ UNCHANGED <<failing, listing, resp, calls, configs>>

OtherRemove(i) ==
    /\ i \in present
    /\ \A j \in present : Entry[j].parent # i
    /\ present' = present \ {i}
    /\ UNCHANGED <<failing, listing, resp, calls, configs>>

\* line 100: the skill is there and --force was not given
Refused_never(exists, force) == FALSE

Refused(exists, force) == exists /\ ~force

\* the command, wherever it stands: pc is "downloading" during the await of
\* downloadFile, "exited" after process.exit(1), "done" after the save
AddState(url, force, skillName, existed, pc) ==
    [op |-> "add", url |-> url, force |-> force, skillName |-> skillName,
     file |-> join(<<USER_SKILLS_DIR, skillName, SKILL_MD>>),
     existed |-> existed, pc |-> pc,
     exitCode |-> IF pc = "exited" THEN 1 ELSE NoCode,
     downloaded |-> "no", wrote |-> FALSE]

\* lines 86-104 for the skill name of the url: exists is existsSync(skillFilePath)
AddChecked(url, force, skillName, exists) ==
    AddState(url, force, skillName, exists,
             IF Refused(exists, force) THEN "exited" ELSE "downloading")

\* addCommand up to the await of downloadFile: lines 79-108
AddCommand(url, force) ==
    /\ resp = Idle
    /\ present' = MkdirP(present, USER_SKILLS_DIR)
    /\ resp' = AddChecked(url, force, extractSkillName(convertToRawUrl(url)),
                   existsSync(FsOf(present'), {},
                       join(<<USER_SKILLS_DIR, extractSkillName(convertToRawUrl(url)), SKILL_MD>>)))
    /\ UNCHANGED <<failing, listing, calls, configs>>

\* lines 108-112: the download succeeded, the directory is made and the
\* file written
AddSave ==
    /\ resp.op = "add" /\ resp.pc = "downloading"
    /\ present' = WriteFile(MkdirP(present, join(<<USER_SKILLS_DIR, resp.skillName>>)),
                            resp.file, DownloadedDoc)
    /\ resp' = [resp EXCEPT !.pc = "done", !.exitCode = 0, !.downloaded = "ok",
                            !.wrote = TRUE]
    /\ UNCHANGED <<failing, listing, calls, configs>>

\* lines 66-74 and 118-121: downloadFile throws, the catch block exits
AddDownloadFailed ==
    /\ resp.op = "add" /\ resp.pc = "downloading"
    /\ resp' = [resp EXCEPT !.pc = "exited", !.exitCode = 1, !.downloaded = "failed"]
    /\ UNCHANGED <<present, failing, listing, calls, configs>>

\* the process of the command has ended
AddExit ==
    /\ resp.op = "add" /\ resp.pc \in {"exited", "done"}
    /\ resp' = Idle
    /\ UNCHANGED <<present, failing, listing, calls, configs>>

InitAdd ==
    /\ present = {}
    /\ failing = {}
    /\ listing = "ascending"
    /\ resp = Idle
    /\ calls = <<>>
    /\ configs = <<>>

NextAdd ==
    \/ \E i \in AddEnvIds : OtherCreate(i)
    \/ \E i \in AddIds : OtherRemove(i)
    \/ \E url \in UrlInputs, force \in BOOLEAN : AddCommand(url, force)
    \/ AddSave
    \/ AddDownloadFailed
    \/ AddExit

SpecAdd == InitAdd /\ [][NextAdd]_vars

\* ------------------------------------------------------------------------
\* The configuration writer of sync (src/commands/sync.ts)
\* ------------------------------------------------------------------------
\* the latest value of Date.now()
MaxTime == 1

\* JSON values: v.t is the type, v.s the characters of a string, v.f the
\* properties of an object by key
NoProperties == [k \in {} |-> 0]
Undefined == [t |-> "undefined", s |-> <<>>, f |-> NoProperties]
JNull == [t |-> "null", s |-> <<>>, f |-> NoProperties]
JNumber == [t |-> "number", s |-> <<>>, f |-> NoProperties]
JString(s) == [t |-> "string", s |-> s, f |-> NoProperties]
JObject(f) == [t |-> "object", s |-> <<>>, f |-> f]

\* the property keys of the indices of a string
IndexKeys == <<"0", "1", "2">>

\* {...v}: the own enumerable properties of v; none for null, undefined
\* and numbers, the characters by index for a string
Spread(v) ==
    IF v.t = "object" THEN v.f
    ELSE IF v.t = "string"
    THEN [k \in {IndexKeys[i] : i \in 1..Len(v.s)} |->
             JString(<<v.s[CHOOSE i \in 1..Len(v.s) : IndexKeys[i] = k]>>)]
    ELSE NoProperties

\* v.k for a v that is neither null nor undefined
Get(v, k) == IF v.t = "object" /\ k \in DOMAIN v.f THEN v.f[k] ELSE Undefined

\* {...f, ...g}: the properties of g over those of f
Override(f, g) == [k \in DOMAIN f \cup DOMAIN g |-> IF k \in DOMAIN g THEN g[k] ELSE f[k]]

\* a text: the JSON document it holds, or no JSON at all
Text(json) == [valid |-> TRUE, json |-> json]
NotJson == [valid |-> FALSE, json |-> Undefined]

\* JSON.stringify(v, null, 2) of an object: properties that are undefined
\* are left out
Stringify(v) ==
    Text(JObject([k \in {j \in DOMAIN v.f : v.f[j].t # "undefined"} |-> v.f[k]]))

\* what is at the path of the configuration file
Absent == [kind |-> "absent", readable |-> FALSE, text |-> NotJson]
Directory == [kind |-> "dir", readable |-> FALSE, text |-> NotJson]
File(text, readable) == [kind |-> "file", readable |-> readable, text |-> text]

\* lines 89-96: the definition of the server that sync registers
SERVER_KEY == "ai-skills-hub"
NewServer == JObject([command |-> JString(<<"n">>), args |-> JString(<<"i">>)])
mcpConfig == JObject([mcpServers |-> JObject(SERVER_KEY :> NewServer)])

\* the settings found in configuration files
OtherServer == JObject([command |-> JString(<<"o">>)])
OldServer == JObject([command |-> JString(<<"n">>), args |-> JString(<<"0">>)])
Theme == JString(<<"d">>)

ConfigInputs ==
    { Absent, Directory,
      File(NotJson, TRUE),
      File(Text(JObject([theme |-> Theme])), FALSE),
      File(Text(JNull), TRUE),
      File(Text(JString(<<"a", "b">>)), TRUE),
      File(Text(JObject(NoProperties)), TRUE),
      File(Text(JObject([theme |-> Theme])), TRUE),
      File(Text(JObject([theme |-> Theme, mcpServers |-> JString(<<"x">>)])), TRUE),
      File(Text(JObject([theme |-> Theme,
                         mcpServers |-> JObject([other |-> OtherServer])])), TRUE),
      File(Text(JObject([mcpServers |->
                            JObject("other" :> OtherServer @@ SERVER_KEY :> OldServer)])), TRUE) }

\* only the entries of the new configuration are kept
MergeServers_replace(old, new) == Spread(new)

\* lines 192-195: {...existingConfig.mcpServers, ...mcpConfig.mcpServers}
MergeServers(old, new) == Override(Spread(old), Spread(new))

\* lines 190-196: mergedConfig
MergedConfig(existingConfig) ==
    JObject(Override(Spread(existingConfig),
                     "mcpServers" :> JObject(MergeServers(Get(existingConfig, "mcpServers"),
                                                          Get(mcpConfig, "mcpServers")))))

\* lines 180-188: the existing configuration, {} when there is no file or
\* it cannot be read or parsed
ExistingConfig(file) ==
    IF file.kind = "file" /\ file.readable /\ file.text.valid
    THEN file.text.json
    ELSE JObject(NoProperties)

\* lines 166-172: backupConfig; copyFileSync throws for a directory and for
\* a file that cannot be read
BackupThrows(file) == file.kind = "dir" \/ (file.kind = "file" /\ ~file.readable)

Backups(c) ==
    IF c.file.kind = "file" /\ c.file.readable
    THEN (c.now :> c.file.text) @@ c.backups
    ELSE c.backups

\* line 192: existingConfig.mcpServers of null throws a TypeError
MergeThrows(file) == ExistingConfig(file).t = "null"

\* line 198: writeFileSync(configPath, JSON.stringify(mergedConfig, null, 2))
Written(c) ==
    [c EXCEPT !.file = File(Stringify(MergedConfig(ExistingConfig(c.file))), TRUE),
              !.backups = Backups(c)]

\* updateJsonConfig on the files c: stage is how far it came, "mkdir",
\* "backup", "merge" or "write" when the step of that name threw, "done"
\* when it returned
UpdateStage(c, mkdirOk, writeOk) ==
    IF ~mkdirOk THEN "mkdir"
    ELSE IF BackupThrows(c.file) THEN "backup"
    ELSE IF MergeThrows(c.file) THEN "merge"
    ELSE IF ~writeOk THEN "write"
    ELSE "done"

\* the files after updateJsonConfig came as far as stage
Updated(c, stage) ==
    IF stage = "done" THEN Written(c)
    ELSE IF stage \in {"merge", "write"} THEN [c EXCEPT !.backups = Backups(c)]
    ELSE c

UpdateResponse(c, stage) ==
    [op |-> "updateJsonConfig", prior |-> c.file, at |-> c.now,
     stage |-> stage, wrote |-> stage = "done"]

\* updateJsonConfig(configPath, mcpConfig): mkdirOk and writeOk say whether
\* mkdirSync and writeFileSync succeed
UpdateJsonConfig(mkdirOk, writeOk) ==
    /\ resp = Idle
    /\ resp' = UpdateResponse(configs, UpdateStage(configs, mkdirOk, writeOk))
    /\ configs' = Updated(configs, UpdateStage(configs, mkdirOk, writeOk))
    /\ UNCHANGED <<present, failing, listing, calls>>

\* the user or the application changes the configuration file
ConfigEdit(file) ==
    /\ resp = Idle
    /\ file # configs.file
    /\ configs' = [configs EXCEPT !.file = file]
    /\ UNCHANGED <<present, failing, listing, resp, calls>>

\* a millisecond passes
Tick ==
    /\ resp = Idle
    /\ configs.now < MaxTime
    /\ configs' = [configs EXCEPT !.now = configs.now + 1]
    /\ UNCHANGED <<present, failing, listing, resp, calls>>

\* updateJsonConfig has returned or thrown
SyncReturn ==
    /\ resp # Idle
    /\ resp' = Idle
    /\ UNCHANGED <<present, failing, listing, calls, configs>>

InitSync ==
    /\ present = {}
    /\ failing = {}
    /\ listing = "ascending"
    /\ resp = Idle
    /\ calls = <<>>
    /\ configs = [file |-> Absent, backups |-> [t \in {} |-> NotJson], now |-> 0]

NextSync ==
    \/ \E file \in ConfigInputs : ConfigEdit(file)
    \/ Tick
    \/ \E mkdirOk \in BOOLEAN, writeOk \in BOOLEAN : UpdateJsonConfig(mkdirOk, writeOk)
    \/ SyncReturn

SpecSync == InitSync /\ [][NextSync]_vars

\* ------------------------------------------------------------------------
\* Requests in flight at once: every handler is an async function, and the
\* event loop runs the handlers of several requests in turns, one step from
\* an await to the next
\* ------------------------------------------------------------------------
\* the most requests in flight at one time
MaxCalls == 2

CallIds == 1..MaxCalls

\* a slot without a request.  pc is the await at which the handler stands:
\* "list" before the readdir of the skills root, "visit" before the loop
\* over its entries, "read" before a readFile, "index" before
\* readSkillResourcesIndex, "done" when it has returned or thrown.
\* entries, files, todo, acc, filename and content are the handler's local
\* variables; stale says that the filesystem changed since the request
\* began, overlapped that another request was in flight with it
IdleCall ==
    [pc |-> "idle", op |-> "none", arg |-> <<>>, entries |-> <<>>, files |-> <<>>,
     todo |-> <<>>, acc |-> <<>>, filename |-> <<>>, content |-> <<>>,
     error |-> "none", stale |-> FALSE, overlapped |-> FALSE]

InFlight(c) == c.pc \notin {"idle", "done"}

\* the local variables of the handler in c
Locals(c) == [c EXCEPT !.stale = FALSE, !.overlapped = FALSE]

\* the requests: list_tools, call_tool of the skill foo, resources/list and
\* resources/read of the document of foo
AsyncRequests ==
    { [op |-> "ListTools", arg |-> <<>>],
      [op |-> "CallTool", arg |-> foo],
      [op |-> "ListResources", arg |-> <<>>],
      [op |-> "ReadResource", arg |-> Uri(<<foo, SKILL_MD>>)] }

\* the handler is entered
Begin(req, overlapped) ==
    [IdleCall EXCEPT !.pc = IF req.op = "ReadResource" THEN "read" ELSE "list",
                     !.op = req.op, !.arg = req.arg, !.overlapped = overlapped]

\* utils.ts lines 24-25 and 36: existsSync(USER_SKILLS_DIR) and the readdir
\* of the root; a failing readdir is caught and leaves no entry to visit
RootEntries(F, X, ord) ==
    IF existsSync(F, X, USER_SKILLS_DIR) /\ ReaddirOk(F, X, USER_SKILLS_DIR)
    THEN readdir(F, ord, USER_SKILLS_DIR)
    ELSE <<>>

\* the list of an earlier request is used again
Visited_cached(c, id, run) ==
    IF \E j \in CallIds : j # id /\ c[j].pc = "done" /\ c[j].op # "ReadResource"
    THEN c[CHOOSE j \in CallIds : j # id /\ c[j].pc = "done" /\ c[j].op # "ReadResource"].files
    ELSE run.results

\* const skillFiles = await scanSkillsDirectory(): the paths of this scan
Visited(c, id, run) == run.results

\* after the scan: list_tools and resources/list loop over the files,
\* call_tool looks for the file of the tool name
AfterVisit(c, files) ==
    IF c.op = "CallTool"
    THEN IF MatchOrFallback(files, c.arg) = <<>>
         THEN [c EXCEPT !.files = files, !.error = "InvalidToolName", !.pc = "done"]
         ELSE [c EXCEPT !.files = files, !.filename = MatchOrFallback(files, c.arg),
                        !.pc = "read"]
    ELSE [c EXCEPT !.files = files, !.todo = files,
                   !.pc = IF files = <<>> THEN "done" ELSE "read"]

\* the array every request pushes to is one and the same
Accumulated_shared(c, id) ==
    c[CHOOSE j \in CallIds : c[j].op = c[id].op /\ c[j].pc = "read"
                              /\ \A k \in 1..(j - 1) : ~(c[k].op = c[id].op /\ c[k].pc = "read")].acc

\* const tools = [] and const resources = []: the array of this request
Accumulated(c, id) == c[id].acc

\* part_003 lines 57-68: the tool of a skill file that was read
ToolEntry(filename, content) ==
    [name |-> filenameToToolName(filename),
     description |-> getSkillDescription(content, filename),
     inputSchema |-> [type |-> "object", properties |-> {}, required |-> <<>>]]

\* the round of the loop is over
NextRound(c, acc) ==
    [c EXCEPT !.acc = acc, !.todo = Tail(c.todo),
              !.pc = IF Tail(c.todo) = <<>> THEN "done" ELSE "read"]

\* one readFile and what follows it up to the next await, r being what
\* readSkillFile returned: a round of the loop of list_tools or of
\* scanAllResources, or the document of call_tool
AfterRead(c, acc, r, F, X, ord) ==
    IF c.op = "ListTools"
    THEN NextRound(c, acc \o (IF r.ok THEN <<ToolEntry(Head(c.todo), r.content)>> ELSE <<>>))
    ELSE IF c.op = "ListResources"
    THEN NextRound(c, acc \o (IF r.ok
                              THEN SkillEntries(Head(c.todo),
                                                StripSuffix(Head(c.todo), SLASH_SKILL_MD),
                                                r.content,
                                                readSkillResourcesIndex(F, X, ord, Head(c.todo)))
                              ELSE <<>>))
    ELSE IF r.ok THEN [c EXCEPT !.content = r.content, !.pc = "index"]
    ELSE [c EXCEPT !.error = "UnknownTool", !.pc = "done"]

\* resources/read: what the handler answers
AfterReadUri(c, r) == [c EXCEPT !.error = r.error, !.content = r.text, !.pc = "done"]

\* part_003 lines 93-109: the section of the resources after the document
AfterIndex(c, resourcesIndex) ==
    [c EXCEPT !.content = c.content \o ResourcesSection(resourcesIndex), !.pc = "done"]

\* a request arrives while slot id is free
Start(id, req) ==
    /\ calls[id].pc = "idle"
    /\ calls' = [j \in CallIds |->
                    IF j = id THEN Begin(req, \E k \in CallIds : InFlight(calls[k]))
                    ELSE IF InFlight(calls[j]) THEN [calls[j] EXCEPT !.overlapped = TRUE]
                    ELSE calls[j]]
    /\ UNCHANGED <<present, failing, listing, resp, configs>>

\* scanDirectory(USER_SKILLS_DIR): await readdir(dir)
ListRoot(id) ==
    /\ calls[id].pc = "list"
    /\ calls' = [calls EXCEPT ![id] = [@ EXCEPT !.entries = RootEntries(fs, faults, dirOrder),
                                                !.pc = "visit"]]
    /\ UNCHANGED <<present, failing, listing, resp, configs>>

\* the loop over the entries that were listed, on the filesystem as it is now
VisitEntries(id) ==
    /\ calls[id].pc = "visit"
    /\ calls' = [calls EXCEPT ![id] =
                    AfterVisit(@, Visited(calls, id,
                                   Caught(scanEntries(fs, faults, dirOrder, USER_SKILLS_DIR,
                                                      <<>>, @.entries, <<>>))))]
    /\ UNCHANGED <<present, failing, listing, resp, configs>>

\* await readSkillFile(...) of list_tools, call_tool and resources/list
ReadNext(id) ==
    /\ calls[id].pc = "read" /\ calls[id].op # "ReadResource"
    /\ calls' = [calls EXCEPT ![id] =
                    AfterRead(@, Accumulated(calls, id),
                              readSkillFile(fs, faults,
                                  IF @.op = "CallTool" THEN @.filename ELSE Head(@.todo)),
                              fs, faults, dirOrder)]
    /\ UNCHANGED <<present, failing, listing, resp, configs>>

\* await readResourceByUri(uri) of resources/read
ReadUri(id) ==
    /\ calls[id].pc = "read" /\ calls[id].op = "ReadResource"
    /\ calls' = [calls EXCEPT ![id] =
                    AfterReadUri(@, ReadResourceResponse(@.arg,
                                        readResourceByUri(fs, faults, @.arg)))]
    /\ UNCHANGED <<present, failing, listing, resp, configs>>

\* await readSkillResourcesIndex(filename) of call_tool
IndexResources(id) ==
    /\ calls[id].pc = "index"
    /\ calls' = [calls EXCEPT ![id] =
                    AfterIndex(@, readSkillResourcesIndex(fs, faults, dirOrder, @.filename))]
    /\ UNCHANGED <<present, failing, listing, resp, configs>>

\* the response or the error has been sent
Return(id) ==
    /\ calls[id].pc = "done"
    /\ calls' = [calls EXCEPT ![id] = IdleCall]
    /\ UNCHANGED <<present, failing, listing, resp, configs>>

\* a step of the handler in slot id
CallStep(id) ==
    \/ ListRoot(id)
    \/ VisitEntries(id)
    \/ ReadNext(id)
    \/ ReadUri(id)
    \/ IndexResources(id)

\* the filesystems the interleaved requests are served on: the skill foo
\* alone, with a resource, with a nested skill of the same tool name, next
\* to a SKILL.md of the root, and nothing at all
AsyncWorlds ==
    { {},
      SkillFooIds,
      SkillFooIds \cup {"skills/foo/resources", "skills/foo/resources/a.md"},
      SkillFooIds \cup {"skills/foo/foo.md", "skills/foo/foo.md/SKILL.md"},
      SkillFooIds \cup {"skills/SKILL.md", "skills/foo-bar", "skills/foo-bar/SKILL.md"} }

AsyncFaults == {{}, {[id |-> "skills/foo/SKILL.md", kind |-> "noread"]}}

InitAsync ==
    /\ present \in AsyncWorlds
    /\ failing \in {X \in AsyncFaults : \A x \in X : x.id \in present}
    /\ listing \in Listings
    /\ resp = Idle
    /\ calls = [id \in CallIds |-> IdleCall]
    /\ configs = <<>>

NextAsync ==
    \/ \E id \in CallIds, req \in AsyncRequests : Start(id, req)
    \/ \E id \in CallIds : CallStep(id)
    \/ \E id \in CallIds : Return(id)

SpecAsync == InitAsync /\ [][NextAsync]_vars

\* the entries that come, go and change while requests are in flight
RaceIds == {"skills/foo", "skills/foo/SKILL.md"}

\* every request in flight or not yet answered has seen the change happen
Staled(c) == [j \in CallIds |-> IF c[j].pc # "idle" THEN [c[j] EXCEPT !.stale = TRUE] ELSE c[j]]

\* the directory or the document of the skill foo is added
RaceCreate(i) ==
    /\ i \notin present
    /\ \A j \in present : Entry[j].path # Entry[i].path
    /\ Entry[i].parent \in present
    /\ present' = present \cup {i}
    /\ calls' = Staled(calls)
    /\ UNCHANGED <<failing, listing, resp, configs>>

\* or removed
RaceRemove(i) ==
    /\ i \in present
    /\ \A j \in present : Entry[j].parent # i
    /\ present' = present \ {i}
    /\ calls' = Staled(calls)
    /\ UNCHANGED <<failing, listing, resp, configs>>

\* the document of the skill foo is rewritten
RaceChange ==
    /\ "skills/foo/SKILL.md" \in present
    /\ present' = (present \ {"skills/foo/SKILL.md"}) \cup {"skills/foo/SKILL.md (downloaded)"}
    /\ calls' = Staled(calls)
    /\ UNCHANGED <<failing, listing, resp, configs>>

InitRace ==
    /\ present = SkillFooIds \cup {"skills/SKILL.md"}
    /\ failing = {}
    /\ listing = "ascending"
    /\ resp = Idle
    /\ calls = [id \in CallIds |-> IdleCall]
    /\ configs = <<>>

NextRace ==
    \/ \E i \in RaceIds : RaceCreate(i)
    \/ \E i \in RaceIds \cup {"skills/foo/SKILL.md (downloaded)"} : RaceRemove(i)
    \/ RaceChange
    \/ \E id \in CallIds, req \in AsyncRequests : Start(id, req)
    \/ \E id \in CallIds : CallStep(id)
    \/ \E id \in CallIds : Return(id)

\* a step of the handler in slot id, told by what it does: the local
\* variables of a request in flight change by CallStep(id) and by nothing else
Advanced(id) == InFlight(calls[id]) /\ Locals(calls'[id]) # Locals(calls[id])

\* the event loop runs every callback that is ready: a handler that can
\* take a step takes it in the end.  This is WF_vars(CallStep(id)) written
\* out, CallStep(id) being enabled exactly while the request is in flight
Scheduled(id) == []<>(~InFlight(calls[id])) \/ []<><<Advanced(id)>>_vars

SpecRace == InitRace /\ [][NextRace]_vars /\ \A id \in CallIds : Scheduled(id)

\* ------------------------------------------------------------------------
\* Properties
\* ------------------------------------------------------------------------
SkillDirOf(name) == join(<<USER_SKILLS_DIR, name>>)

\* the path p is the skills root or lies below it
InsideRoot(p) == IsPathPrefix(USER_SKILLS_DIR, p)

\* C1: a skill:// URI whose remainder, joined onto the skills root and
\* normalised, lies outside the root makes ReadResource fail with InvalidURI,
\* and no file is read or returned.
C1_EscapingUriRejected ==
    (/\ resp.op = "ReadResource"
     /\ StartsWith(resp.uri, SKILL_SCHEME)
     /\ ~InsideRoot(join(<<USER_SKILLS_DIR, Substring(resp.uri, Len(SKILL_SCHEME))>>)))
    => (resp.error = "InvalidURI" /\ resp.file = <<>> /\ resp.text = <<>>)

\* the script path begins with a parent-directory segment
BeginsWithParent(scriptPath) == StartsWith(scriptPath, DOTDOT \o SLASH)

\* an execution of a script path beginning with '..' for the existing skill foo
ParentPathForFoo ==
    /\ resp.op = "executeSkillScript"
    /\ resp.skillName = foo
    /\ existsSync(fs, faults, SkillDirOf(foo))
    /\ BeginsWithParent(resp.scriptPath)

\* C2 as stated: a script path that begins with parent-directory segments,
\* for the existing skill foo, fails with PathEscape and spawns nothing.
C2_ParentPathFailsWithPathEscape ==
    ParentPathForFoo => (resp.error = "PathEscape" /\ resp.spawned = <<>>)

\* the script path without its parent-directory segments
ParentFree(scriptPath) ==
    JoinWith(SelectSeq(Split(normalize(scriptPath), "/"), LAMBDA seg : seg # DOTDOT), "/")

\* C2 as amended: such a path never fails with PathEscape; its parent
\* segments are dropped and the rest is taken below the skill directory: the
\* call fails with ScriptNotFound when that path does not exist, and otherwise
\* spawns on exactly that path, which is the skill directory or lies in it.
C2_ParentPathIsStripped ==
    ParentPathForFoo =>
        LET target == join(<<SkillDirOf(foo), ParentFree(resp.scriptPath)>>)
        IN  /\ IsPathPrefix(SkillDirOf(foo), target)
            /\ IF existsSync(fs, faults, target)
               THEN resp.spawned = target /\ resp.error \in {"none", "LaunchFailure"}
               ELSE resp.spawned = <<>> /\ resp.error = "ScriptNotFound"

\* ../../evil.sh was asked for skill foo while ~/.ai-skills-hub/evil.sh
\* exists, and the process ran foo/evil.sh
C2_Witness ==
    /\ ParentPathForFoo
    /\ resp.scriptPath = Rel(<<DOTDOT, DOTDOT, evil_sh>>)
    /\ join(<<AppDir, evil_sh>>) \in DOMAIN fs
    /\ resp.spawned = join(<<SkillDirOf(foo), evil_sh>>)
    /\ resp.settled = "resolved"

\* C3: whenever a process was spawned and ran, the script it ran lies in the
\* resolved skill directory (the directory itself or a path below it).
C3_SpawnedScriptInsideSkillDir ==
    (resp.op = "executeSkillScript" /\ resp.settled = "resolved")
    => IsPathPrefix(resp.skillDir, resp.spawned)

\* Resolver validation as section 4.5 states it: the scheme prefix, and the
\* joined path still inside the skills root
PassesResolverValidation(uri) ==
    /\ StartsWith(uri, SKILL_SCHEME)
    /\ InsideRoot(join(<<USER_SKILLS_DIR, Substring(uri, Len(SKILL_SCHEME))>>))

\* C4: ReadResource fails with MissingURI for an absent uri, with InvalidURI
\* (before any filesystem access) for a uri that fails Resolver validation,
\* with ResourceReadFailure when the resolved file cannot be read, and
\* otherwise returns the file's text as text/markdown.
C4_ReadResourceOutcomes ==
    resp.op = "ReadResource" =>
        LET file == join(<<USER_SKILLS_DIR, Substring(resp.uri, Len(SKILL_SCHEME))>>)
        IN  IF resp.uri = NoUri
            THEN resp.error = "MissingURI" /\ resp.file = <<>>
            ELSE IF ~PassesResolverValidation(resp.uri)
            THEN resp.error = "InvalidURI" /\ resp.file = <<>>
            ELSE IF ~ReadFileOk(fs, faults, file)
            THEN resp.error = "ResourceReadFailure" /\ resp.text = <<>>
            ELSE /\ resp.error = "none"
                 /\ resp.text = fs[file].content
                 /\ resp.mimeType = "text/markdown"

RECURSIVE CollapseRuns(_)
\* every maximal run of characters outside [a-z0-9] becomes one underscore
CollapseRuns(s) ==
    IF s = <<>> THEN <<>>
    ELSE IF Head(s) \in Range(LowerSeq) \cup Digits THEN <<Head(s)>> \o CollapseRuns(Tail(s))
    ELSE IF Len(s) > 1 /\ s[2] \notin Range(LowerSeq) \cup Digits THEN CollapseRuns(Tail(s))
    ELSE <<"_">> \o CollapseRuns(Tail(s))

\* the segment of a SkillPath immediately before the SKILL.md filename
SkillDirSegment(p) == LET segs == Split(p, "/") IN segs[Len(segs) - 1]

IsNestedSkillPath(p) == EndsWith(p, SLASH_SKILL_MD) /\ Len(p) > Len(SLASH_SKILL_MD)

\* C5: the tool name of a SkillPath is the segment before SKILL.md,
\* lower-cased, each maximal run outside [a-z0-9] replaced by one underscore.
C5_ToolNameIsNormalizedDirName ==
    (resp.op = "filenameToToolName" /\ IsNestedSkillPath(resp.path))
    => resp.result = CollapseRuns(ToLowerCase(SkillDirSegment(resp.path)))

\* the skill directory name has only lower-case letters, digits and hyphens
IsSimpleSkillPath(p) ==
    /\ IsNestedSkillPath(p)
    /\ \A c \in Range(SkillDirSegment(p)) : c \in Range(LowerSeq) \cup Digits \cup {"-"}

\* C6 as stated: for every scanned path p with a simple directory name,
\* resolving p's tool name gives p back, whatever else is in the directory.
C6_RoundTripAlways ==
    resp.op = "toolNameToFilename" =>
        \A p \in Range(scanSkillsDirectory(fs, faults, dirOrder)) :
            (IsSimpleSkillPath(p) /\ filenameToToolName(p) = resp.toolName)
            => resp.result = p

\* C6 as amended: the round trip gives p back when no path earlier in the
\* scan has p's tool name; in every case it gives a scanned path with p's
\* tool name.
C6_RoundTripWhenFirst ==
    resp.op = "toolNameToFilename" =>
        LET files == scanSkillsDirectory(fs, faults, dirOrder)
        IN  \A i \in DOMAIN files :
                (IsSimpleSkillPath(files[i]) /\ filenameToToolName(files[i]) = resp.toolName)
                => /\ resp.result \in Range(files)
                   /\ filenameToToolName(resp.result) = resp.toolName
                   /\ (\A j \in 1..(i - 1) : filenameToToolName(files[j]) # resp.toolName)
                      => resp.result = files[i]

\* foo-bar was resolved back from foo_bar although Foo_-Bar, scanned after
\* it, has the same tool name
C6_Witness ==
    /\ resp.op = "toolNameToFilename"
    /\ resp.toolName = fooUnderBar
    /\ resp.result = Rel(<<fooDashBar, SKILL_MD>>)
    /\ scanSkillsDirectory(fs, faults, dirOrder)
         = <<Rel(<<fooDashBar, SKILL_MD>>), Rel(<<FooMixBar, SKILL_MD>>)>>

\* C7: toolNameToFilename returns the first path of the scan whose tool name
\* equals the input; only when none matches, the input with every underscore
\* replaced by a hyphen, followed by /SKILL.md, whether or not it exists.
C7_FirstMatchElseHyphenFallback ==
    resp.op = "toolNameToFilename" =>
        LET files == scanSkillsDirectory(fs, faults, dirOrder)
            Matches(i) == filenameToToolName(files[i]) = resp.toolName
        IN  IF \E i \in DOMAIN files : Matches(i)
            THEN \E i \in DOMAIN files :
                    /\ Matches(i)
                    /\ \A j \in 1..(i - 1) : ~Matches(j)
                    /\ resp.result = files[i]
            ELSE /\ Len(resp.result) = Len(resp.toolName) + Len(SLASH_SKILL_MD)
                 /\ EndsWith(resp.result, SLASH_SKILL_MD)
                 /\ \A k \in DOMAIN resp.toolName :
                        resp.result[k] = IF resp.toolName[k] = "_" THEN "-" ELSE resp.toolName[k]

\* foo_md matched no scanned skill although skills were scanned, and the
\* constructed path foo-md/SKILL.md, which does not exist, was returned
C7_Witness ==
    /\ resp.op = "toolNameToFilename"
    /\ resp.toolName = fooUnderMd
    /\ scanSkillsDirectory(fs, faults, dirOrder) # <<>>
    /\ resp.result = Rel(<<<<"f","o","o","-","m","d">>, SKILL_MD>>)
    /\ join(<<USER_SKILLS_DIR, resp.result>>) \notin DOMAIN fs

\* C8: when the skills root does not exist the scanner returns the empty
\* sequence without raising, and ListTools succeeds with no tools.
C8_MissingRootIsEmptyLibrary ==
    USER_SKILLS_DIR \notin DOMAIN fs =>
        /\ resp.op = "scanSkillsDirectory" => (~resp.raised /\ resp.result = <<>>)
        /\ resp.op = "ListTools" => (~resp.raised /\ resp.tools = <<>>)

C8_Witness ==
    /\ USER_SKILLS_DIR \notin DOMAIN fs
    /\ resp.op = "ListTools"
    /\ resp.tools = <<>>

\* the skill-definition files below the root: files named SKILL.md, as paths
\* relative to the root
SkillFilesBelowRoot ==
    { Substring(p, Len(USER_SKILLS_DIR) + 1) :
        p \in { q \in DOMAIN fs : /\ StartsWith(q, USER_SKILLS_DIR \o SLASH)
                                  /\ EndsWith(q, SLASH_SKILL_MD)
                                  /\ fs[q].kind = "file" } }

\* C9: a failing readdir or stat skips only the failing subtree: the scan does
\* not raise and returns every skill file outside that subtree.
C9_OnlyFailingSubtreeSkipped ==
    resp.op = "scanSkillsDirectory" =>
        /\ ~resp.raised
        /\ \A rel \in SkillFilesBelowRoot :
              (~ \E x \in faults : IsPathPrefix(x.path, join(<<USER_SKILLS_DIR, rel>>)))
              => rel \in Range(resp.result)

\* C10: without read errors the scanner returns exactly the root-relative
\* paths of the files named SKILL.md below the root, each once.
C10_ScanIsExact ==
    (resp.op = "scanSkillsDirectory" /\ faults = {}) =>
        /\ Range(resp.result) = SkillFilesBelowRoot
        /\ Cardinality(Range(resp.result)) = Len(resp.result)
        /\ \A p \in Range(resp.result) :
              /\ EndsWith(p, SKILL_MD)
              /\ join(<<USER_SKILLS_DIR, p>>) \in DOMAIN fs
              /\ fs[join(<<USER_SKILLS_DIR, p>>)].kind = "file"

\* a scan without errors found a skill two directories deep beside another
\* file that is not a skill definition
C10_Witness ==
    /\ resp.op = "scanSkillsDirectory"
    /\ faults = {}
    /\ Rel(<<foo, fooDotMd, SKILL_MD>>) \in Range(resp.result)
    /\ join(<<USER_SKILLS_DIR, foo, evil_sh>>) \in DOMAIN fs


\* ------------------------------------------------------------------------
\* Properties of the description extractor
\* ------------------------------------------------------------------------
TrimAll(lines) == [i \in DOMAIN lines |-> Trim(lines[i])]

\* the trimmed lines of a document
TrimmedLines(content) == TrimAll(Split(content, "\n"))

\* the least element of a set of indices, 0 for the empty set
LeastOf(S) == IF S = {} THEN 0 ELSE CHOOSE i \in S : \A j \in S : i <= j

\* the index of the first non-blank line of the trimmed lines t
OpeningIdx(t) == LeastOf({i \in DOMAIN t : t[i] # <<>>})

\* the first non-blank line is the delimiter
OpensFrontMatter(t) ==
    OpeningIdx(t) > 0 /\ t[OpeningIdx(t)] = FRONT_MATTER_DELIMITER

\* the index of the first delimiter after the opening one, 0 when none
ClosingIdx(t) ==
    LeastOf({i \in DOMAIN t : i > OpeningIdx(t) /\ t[i] = FRONT_MATTER_DELIMITER})

ClosedFrontMatter(t) == OpensFrontMatter(t) /\ ClosingIdx(t) > 0

UnterminatedFrontMatter(t) == OpensFrontMatter(t) /\ ClosingIdx(t) = 0

\* the trimmed value of a line 'description: value' (key in any case),
\* <<>> for any other line
DescriptionValue(line) ==
    IF StartsWith(ToLowerCase(line), DESCRIPTION_KEY)
    THEN Trim(Substring(line, Len(DESCRIPTION_KEY)))
    ELSE <<>>

\* the description lines with a value between the two delimiters
BlockDescriptions(t) ==
    {i \in (OpeningIdx(t) + 1)..(ClosingIdx(t) - 1) : DescriptionValue(t[i]) # <<>>}

\* first and last character are the same quote character
IsQuoted(v) == Len(v) >= 1 /\ v[1] = v[Len(v)] /\ v[1] \in {"\"", "'"}

WithoutQuotes(v) == IF IsQuoted(v) THEN SubSeq(v, 2, Len(v) - 1) ELSE v

\* C11: when the document starts, at its first non-blank line, with a closed
\* front-matter block holding a description line with a value, the extracted
\* description is that value with its quotes stripped, whatever heading or
\* text follows the block.
C11_FrontMatterDescriptionWins ==
    (/\ resp.op = "getSkillDescription"
     /\ ClosedFrontMatter(TrimmedLines(resp.content))
     /\ BlockDescriptions(TrimmedLines(resp.content)) # {})
    => resp.result =
          WithoutQuotes(DescriptionValue(
              TrimmedLines(resp.content)[LeastOf(BlockDescriptions(TrimmedLines(resp.content)))]))

\* a front-matter description followed by a heading: the description is returned
C11_Witness ==
    /\ resp.op = "getSkillDescription"
    /\ resp.content = JoinWith(<<FRONT_MATTER_DELIMITER, DescriptionLine,
                                 FRONT_MATTER_DELIMITER, HeadingLine>>, "\n")
    /\ resp.result = <<"G", "o">>

\* a level-1 or level-2 heading
IsHeading(line) == StartsWith(line, <<"#", " ">>) \/ StartsWith(line, <<"#", "#", " ">>)

HeadingText(line) ==
    IF StartsWith(line, <<"#", " ">>) THEN Trim(Substring(line, 2))
    ELSE Trim(Substring(line, 3))

\* a plain line, cut to maxLength characters with an ellipsis when longer
Truncated(line) ==
    IF Len(line) > maxLength THEN SubSeq(line, 1, maxLength) \o <<".", ".", ".">>
    ELSE line

\* the index of the first line after a closed front-matter block, 1 without one
ContentFrom(t) == IF ClosedFrontMatter(t) THEN ClosingIdx(t) + 1 ELSE 1

NonBlankFrom(t, from) == {i \in from..Len(t) : t[i] # <<>>}

HeadingsFrom(t, from) == {i \in from..Len(t) : IsHeading(t[i])}

\* the first non-blank line from index from on: its heading text when it is
\* a heading, the line itself otherwise
FirstLineRule(t, from) ==
    IF IsHeading(t[LeastOf(NonBlankFrom(t, from))])
    THEN HeadingText(t[LeastOf(NonBlankFrom(t, from))])
    ELSE Truncated(t[LeastOf(NonBlankFrom(t, from))])

\* the first heading from index from on, the first non-blank line when
\* there is no heading
FirstHeadingRule(t, from) ==
    IF HeadingsFrom(t, from) # {}
    THEN HeadingText(t[LeastOf(HeadingsFrom(t, from))])
    ELSE FirstLineRule(t, from)

\* no line of the document is a description line
NoDescriptionLine(t) == \A i \in DOMAIN t : DescriptionValue(t[i]) = <<>>

\* C12: when no front-matter description applies and the document has a
\* level-1 or level-2 heading after any front-matter block, the description
\* is the text of the first such heading; the first non-blank content line is
\* used only when there is no such heading.
C12_FirstHeadingElseFirstLine ==
    (/\ resp.op = "getSkillDescription"
     /\ NoDescriptionLine(TrimmedLines(resp.content))
     /\ NonBlankFrom(TrimmedLines(resp.content),
                     ContentFrom(TrimmedLines(resp.content))) # {})
    => resp.result = FirstHeadingRule(TrimmedLines(resp.content),
                                      ContentFrom(TrimmedLines(resp.content)))

\* C13: when the first non-blank line is '---' and no later line is '---',
\* the front-matter rule is abandoned: the description is what the heading
\* and first-line rules give over the whole document, never the value of a
\* description line of the unterminated block.
C13_UnterminatedFrontMatterAbandoned ==
    (/\ resp.op = "getSkillDescription"
     /\ UnterminatedFrontMatter(TrimmedLines(resp.content)))
    => resp.result \in {FirstHeadingRule(TrimmedLines(resp.content), 1),
                        FirstLineRule(TrimmedLines(resp.content), 1)}

\* C14: the quotes around the trimmed value of a front-matter description
\* (key in any case) are removed if and only if its first and last character
\* are the same quote character; any other value is returned unchanged.
C14_QuotesStrippedIffMatching ==
    (/\ resp.op = "getSkillDescription"
     /\ ClosedFrontMatter(TrimmedLines(resp.content))
     /\ BlockDescriptions(TrimmedLines(resp.content)) # {})
    => \E v \in {DescriptionValue(
                    TrimmedLines(resp.content)[LeastOf(BlockDescriptions(TrimmedLines(resp.content)))])} :
          \/ IsQuoted(v) /\ resp.result = SubSeq(v, 2, Len(v) - 1)
          \/ ~IsQuoted(v) /\ resp.result = v

\* a value with two kinds of quotes under the key 'Description:' comes back
\* unchanged
C14_Witness ==
    /\ resp.op = "getSkillDescription"
    /\ resp.content = JoinWith(<<FRONT_MATTER_DELIMITER,
                                 <<"D","e","s","c","r","i","p","t","i","o","n",":"," ","\"","G","o","'">>,
                                 FRONT_MATTER_DELIMITER>>, "\n")
    /\ resp.result = <<"\"", "G", "o", "'">>

\* ------------------------------------------------------------------------
\* Properties of the Resource Indexer and of the resource requests
\* ------------------------------------------------------------------------
\* the resources directory of the skill whose definition is at filepath
ResourcesDirOf(filepath) ==
    USER_SKILLS_DIR \o SLASH \o StripSuffix(filepath, SLASH_SKILL_MD) \o SLASH \o ResourcesName

\* the names of the readable files directly inside dir that end in '.md'
ReadableMdFiles(dir) ==
    {n \in Range(NameList) :
        /\ EndsWith(n, DOT_MD)
        /\ (dir \o SLASH \o n) \in DOMAIN fs
        /\ fs[dir \o SLASH \o n].kind = "file"
        /\ ReadFileOk(fs, faults, dir \o SLASH \o n)}

\* the entries are those of the names in S, one each, in ascending order of
\* their names, each with the description of the file of that name in dir
IsIndexOf(resources, dir, S) ==
    /\ {resources[i].filename : i \in DOMAIN resources} = S
    /\ Len(resources) = Cardinality(S)
    /\ \A i, j \in DOMAIN resources :
          i < j => Precedes(resources[i].filename, resources[j].filename)
    /\ \A i \in DOMAIN resources :
          resources[i].description =
              getSkillDescription(fs[dir \o SLASH \o resources[i].filename].content,
                                  resources[i].filename)

MissingOrNoDirectory(p) == p \notin DOMAIN fs \/ fs[p].kind # "dir"

\* C16: the Resource Indexer never raises; without a resources directory, or
\* with a resources entry that is no directory, it returns the empty
\* sequence; a resource file that cannot be read is left out alone, every
\* readable one is still returned, once and in ascending order.
C16_IndexNeverRaises ==
    resp.op = "readSkillResourcesIndex"
    => /\ ~resp.raised
       /\ MissingOrNoDirectory(ResourcesDirOf(resp.filepath)) => resp.resources = <<>>
       /\ ReaddirOk(fs, faults, ResourcesDirOf(resp.filepath))
          => /\ \A n \in ReadableMdFiles(ResourcesDirOf(resp.filepath)) :
                   Cardinality({i \in DOMAIN resp.resources : resp.resources[i].filename = n}) = 1
             /\ \A i \in DOMAIN resp.resources :
                   /\ resp.resources[i].filename \in ReadableMdFiles(ResourcesDirOf(resp.filepath))
                   /\ \A j \in DOMAIN resp.resources :
                         i < j => Precedes(resp.resources[i].filename, resp.resources[j].filename)

\* B.md cannot be read, a.md can: the index holds a.md alone
C16_Witness ==
    /\ resp.op = "readSkillResourcesIndex"
    /\ failing = {[id |-> "skills/foo/resources/B.md", kind |-> "noread"]}
    /\ "skills/foo/resources/a.md" \in present
    /\ ~resp.raised
    /\ resp.resources = <<[filename |-> a_md, description |-> <<"a">>]>>

\* the document CallTool read: the file of the resolved filename
CalledDocument == fs[join(<<USER_SKILLS_DIR, resp.filename>>)].content

\* the lines of the text after the document that list a resource
ListedResources(text, document) ==
    SelectSeq(Split(Substring(text, Len(document)), "\n"),
              LAMBDA l : StartsWith(l, <<"-", " ", "*", "*">>))

\* the line that lists the resource r
ListingOf(r) ==
    <<"-", " ", "*", "*">> \o StripSuffix(r.filename, DOT_MD)
    \o <<"*", "*", ":", " ">> \o r.description

\* the text is the document followed by a section headed 'Available
\* Resources' that lists the resources of the index, one line each, in order
HasResourcesSection(text, document, index) ==
    /\ StartsWith(text, document)
    /\ <<"#","#"," ","A","v","a","i","l","a","b","l","e"," ","R","e","s","o","u","r","c","e","s">>
          \in Range(Split(Substring(text, Len(document)), "\n"))
    /\ Len(ListedResources(text, document)) = Len(index)
    /\ \A i \in DOMAIN index : ListedResources(text, document)[i] = ListingOf(index[i])

\* C17: CallTool returns the text of the skill document unchanged when the
\* Resource Indexer returns no entry; when the index has an entry the text is
\* the document followed by an 'Available Resources' section that lists
\* every resource of the index once, in index order, by its filename without
\* '.md' and its description.
C17_ResourcesSectionOnlyWhenIndexed ==
    (resp.op = "CallTool" /\ resp.error = "none")
    => IF readSkillResourcesIndex(fs, faults, dirOrder, resp.filename) = <<>>
       THEN resp.text = CalledDocument
       ELSE HasResourcesSection(resp.text, CalledDocument,
                                readSkillResourcesIndex(fs, faults, dirOrder, resp.filename))

\* the resources directory of foo exists and is empty: the text is the document
C17_Witness ==
    /\ resp.op = "CallTool"
    /\ resp.name = foo
    /\ resp.error = "none"
    /\ present \cap ResourceIds = {"skills/foo/resources"}
    /\ failing = {}
    /\ resp.text = Doc(<<"2">>)

\* C18: CallTool with a tool name that resolves, through the scan or through
\* the hyphen fallback, to a path that does not exist or cannot be read fails
\* with an UnknownTool error and returns no content.
C18_UnreadableSkillIsUnknownTool ==
    (/\ resp.op = "CallTool"
     /\ ~ReadFileOk(fs, faults, join(<<USER_SKILLS_DIR, resp.filename>>)))
    => (resp.error = "UnknownTool" /\ resp.text = <<>>)

\* the document of foo is found by the scan and cannot be read, while foo has
\* a readable resource
C18_Witness ==
    /\ resp.op = "CallTool"
    /\ resp.name = foo
    /\ resp.filename = join(<<foo, SKILL_MD>>)
    /\ failing = {[id |-> "skills/foo/SKILL.md", kind |-> "noread"]}
    /\ "skills/foo/resources/a.md" \in present
    /\ resp.error = "UnknownTool"

\* the scanned skill paths whose documents can be read, in scan order
ReadableScanned ==
    SelectSeq(scanSkillsDirectory(fs, faults, dirOrder),
              LAMBDA p : ReadFileOk(fs, faults, USER_SKILLS_DIR \o SLASH \o p))

\* the tool of the skill at path p
ToolOf(p) ==
    [name |-> filenameToToolName(p),
     description |-> getSkillDescription(fs[USER_SKILLS_DIR \o SLASH \o p].content, p),
     inputSchema |-> [type |-> "object", properties |-> {}, required |-> <<>>]]

\* C19: ListTools always succeeds and returns, in scan order, exactly one
\* entry {name, description, empty object schema} for each scanned skill path
\* whose document can be read; a document that cannot be read leaves out the
\* entry of that skill alone.
C19_ListToolsOmitsOnlyUnreadable ==
    resp.op = "ListTools"
    => /\ ~resp.raised
       /\ Len(resp.tools) = Len(ReadableScanned)
       /\ \A i \in DOMAIN resp.tools : resp.tools[i] = ToolOf(ReadableScanned[i])

\* SKILL.md in the root is scanned first and cannot be read: the tool of foo
\* is returned alone
C19_Witness ==
    /\ resp.op = "ListTools"
    /\ listing = "ascending"
    /\ {"skills/SKILL.md", "skills/foo/SKILL.md"} \subseteq present
    /\ failing = {[id |-> "skills/SKILL.md", kind |-> "noread"]}
    /\ ~resp.raised
    /\ Len(resp.tools) = 1
    /\ resp.tools[1].name = foo

\* the directory of the skill whose definition is at path p, relative to the
\* skills root: empty for a SKILL.md in the root itself
SkillDirectoryOf(p) == IF p = SKILL_MD THEN <<>> ELSE StripSuffix(p, SLASH_SKILL_MD)

\* the uri of the document of the skill at p: 'skill://' and the path of the
\* document below the root, or 'skill://<skill-directory>/SKILL.md' as written
SkillUris(p) ==
    {SKILL_SCHEME \o p, SKILL_SCHEME \o SkillDirectoryOf(p) \o SLASH_SKILL_MD}

\* the uri of the resource filename of the skill at p, in the same two readings
ResourceUris(p, filename) ==
    {SKILL_SCHEME \o StripSuffix(p, SKILL_MD) \o ResourcesName \o SLASH \o filename,
     SKILL_SCHEME \o SkillDirectoryOf(p) \o SLASH \o ResourcesName \o SLASH \o filename}

RECURSIVE ExpectedResources(_)
\* what ListResources is to return for the skill paths: for each the skill
\* itself (resource 0), then the resources of its index by their position
ExpectedResources(paths) ==
    IF paths = <<>> THEN <<>>
    ELSE <<[skill |-> Head(paths), resource |-> 0]>>
         \o [i \in 1..Len(readSkillResourcesIndex(fs, faults, dirOrder, Head(paths))) |->
                [skill |-> Head(paths), resource |-> i]]
         \o ExpectedResources(Tail(paths))

\* the entry r is the one expected at e
IsResourceEntry(r, e) ==
    /\ r.mimeType = "text/markdown"
    /\ r.uri = SKILL_SCHEME \o r.name \o DOT_MD
    /\ IF e.resource = 0
       THEN r.uri \in SkillUris(e.skill)
       ELSE r.uri \in ResourceUris(e.skill,
                readSkillResourcesIndex(fs, faults, dirOrder, e.skill)[e.resource].filename)

\* C20: ListResources returns, for every readable scanned skill, one entry
\* for the skill's document (uri skill://<skill-directory>/SKILL.md) followed
\* at once by one entry per indexed resource (uri
\* skill://<skill-directory>/resources/<filename>) in index order; every
\* entry has the media type text/markdown and a name equal to its uri without
\* the prefix 'skill://' and without the trailing '.md'.
C20_ListResourcesEntries ==
    resp.op = "ListResources"
    => /\ Len(resp.resources) = Len(ExpectedResources(ReadableScanned))
       /\ \A i \in DOMAIN resp.resources :
             IsResourceEntry(resp.resources[i], ExpectedResources(ReadableScanned)[i])

\* C21: when the scan of ListResources meets an internal error (a directory
\* read or a stat that fails part-way), the call does not fail and returns
\* the empty list, not a partial one.
C21_ScanErrorGivesEmptyList ==
    (/\ resp.op = "ListResources"
     /\ scanSkillsDirectoryRun(fs, faults, dirOrder).logged)
    => resp.resources = <<>>

\* there is a directory at path p
DirAt(p) == p \in DOMAIN fs /\ fs[p].kind = "dir"

\* the entry of the skills root with the name n
InRoot(n) == USER_SKILLS_DIR \o SLASH \o n

\* the directories of the skills root whose tool name is n, as listed
ScanMatches(n) ==
    SelectSeq(readdir(fs, dirOrder, USER_SKILLS_DIR),
              LAMBDA e : DirAt(InRoot(e)) /\ CollapseRuns(ToLowerCase(e)) = n)

\* the skill directory of the skill name n: the directory of that name, else
\* the one with hyphens for underscores, else the first match of the scan,
\* <<>> when there is none
ExpectedSkillDir(n) ==
    IF DirAt(InRoot(n)) THEN InRoot(n)
    ELSE IF DirAt(InRoot(ReplaceChar(n, "_", "-"))) THEN InRoot(ReplaceChar(n, "_", "-"))
    ELSE IF ScanMatches(n) # <<>> THEN InRoot(Head(ScanMatches(n)))
    ELSE <<>>

\* C22: the Script Executor takes as skill directory the directory named by
\* the skill name if it exists, otherwise the directory named with hyphens
\* for underscores if it exists, otherwise the first directory of the scan
\* whose tool name equals the skill name; when none of the three finds a
\* directory the call fails with SkillNotFound and nothing is spawned.
C22_SkillDirResolutionOrder ==
    (resp.op = "executeSkillScript" /\ failing = {})
    => IF ExpectedSkillDir(resp.skillName) = <<>>
       THEN resp.error = "SkillNotFound" /\ resp.spawned = <<>>
       ELSE resp.error # "SkillNotFound" /\ resp.skillDir = ExpectedSkillDir(resp.skillName)

\* a call of the Script Executor that has spawned its child
Launched == resp.op = "executeSkillScript" /\ resp.spawned # <<>>

\* the settled state of a launched call agrees with what its child did
SettledAsChildDid ==
    Launched =>
        /\ resp.settled = "pending" <=> resp.child = "running"
        /\ resp.settled = "resolved" =>
              /\ resp.child = "closed"
              /\ resp.error = "none"
              /\ resp.exitCode = (IF resp.code = NoCode THEN 0 ELSE resp.code)
              /\ resp.stdout = Trim(resp.buffer)
        /\ resp.settled = "rejected" =>
              /\ resp.child \in {"failed", "closed"}
              /\ resp.error = "LaunchFailure"
              /\ resp.stdout = <<>>
              /\ resp.exitCode = 0

\* a settled call keeps its outcome whatever the child does afterwards
SettlesOnce ==
    (Launched /\ resp.settled # "pending" /\ resp' # Idle)
    => /\ resp'.settled = resp.settled
       /\ resp'.error = resp.error
       /\ resp'.stdout = resp.stdout
       /\ resp'.exitCode = resp.exitCode

\* C23: a launched script that closes makes the call resolve with the
\* child's exit code (0 when it reports none), a non-zero code included; a
\* launch failure makes the call fail with LaunchFailure and no result; the
\* call is pending exactly while the child runs and, once settled, never
\* changes its outcome.
C23_SettlesOnceWithExitCodeOrLaunchFailure ==
    []SettledAsChildDid /\ [][SettlesOnce]_vars

\* a script wrote output and closed with code 1: the call resolved with
\* exit code 1
C23_Witness ==
    /\ Launched
    /\ resp.settled = "resolved"
    /\ resp.code = 1
    /\ resp.exitCode = 1
    /\ resp.buffer # <<>>

\* the tool names ListTools returns over the present filesystem
ListedToolNames ==
    {t.name : t \in Range(ListToolsResponse(fs, faults,
                              scanSkillsDirectoryRun(fs, faults, dirOrder)).tools)}

\* the readable documents of the scanned skills whose tool name is name
DocumentsOfTool(name) ==
    {readSkillFile(fs, faults, p).content :
        p \in {q \in Range(ReadableScanned) : filenameToToolName(q) = name}}

\* C28: over an unchanged filesystem, CallTool of a name that ListTools
\* returns succeeds, and its text starts with the document of a skill with
\* that tool name; also when skills share a tool name or are unreadable.
C28_ListedToolsAreCallable ==
    (resp.op = "CallTool" /\ resp.name \in ListedToolNames)
    => /\ resp.error = "none"
       /\ \E d \in DocumentsOfTool(resp.name) : StartsWith(resp.text, d)

\* C30: whatever tool name the caller supplies, a name that matches no
\* scanned skill and is a '..' segment included, the document CallTool
\* returns was read from a file inside the skills root.
C30_CallToolReadsInsideRoot ==
    (resp.op = "CallTool" /\ resp.error = "none")
    => InsideRoot(join(<<USER_SKILLS_DIR, resp.filename>>))

\* the resources ListResources is built from over the present filesystem,
\* each with the path of its file below the skills root
ScannedResources == Range(scanAllResources(fs, faults, dirOrder))

\* C29: over an unchanged filesystem, ReadResource of a uri that
\* ListResources returns succeeds with the content of the file the entry was
\* built from, at any nesting depth, a SKILL.md in the skills root included.
C29_ListedUrisAreReadable ==
    resp.op = "ReadResource"
    => \A r \in ScannedResources :
          r.uri = resp.uri
          => /\ resp.error = "none"
             /\ resp.file = join(<<USER_SKILLS_DIR, r.path>>)
             /\ resp.text = readSkillFile(fs, faults, r.path).content

\* what is at path p: the content of the file there, "dir" or "absent"
FileAt(P, p) ==
    IF p \notin DOMAIN FsOf(P) THEN "absent"
    ELSE IF FsOf(P)[p].kind = "dir" THEN "dir"
    ELSE FsOf(P)[p].content

\* an add command that found the skill and was not given --force has
\* exited with an error, has downloaded nothing and has written nothing
RefusedWithoutForce ==
    (resp.op = "add" /\ resp.existed /\ ~resp.force)
    => /\ resp.pc = "exited"
       /\ resp.exitCode = 1
       /\ resp.downloaded = "no"
       /\ ~resp.wrote

\* an add command has written only after a download that succeeded
WroteOnlyDownloaded ==
    resp.op = "add"
    => /\ resp.wrote => resp.downloaded = "ok"
       /\ resp.downloaded = "failed" => ~resp.wrote /\ resp.exitCode = 1

\* a step of the command changes the skill's file only by the save that
\* follows a successful download, and never when the skill was found
\* without --force
CommandLeavesFile ==
    (/\ resp' # resp
     /\ resp'.op = "add"
     /\ FileAt(present', resp'.file) # FileAt(present, resp'.file))
    => /\ resp'.wrote /\ resp'.downloaded = "ok"
       /\ resp'.existed => resp'.force

\* C26: an add command that finds <skills root>/<skill-name>/SKILL.md and
\* has no --force exits with an error before any download and leaves the
\* file as it is; with --force the file is replaced only once the download
\* has succeeded, and a failed download leaves it as it is.
C26_AddOverwritesOnlyWithForce ==
    /\ [](RefusedWithoutForce /\ WroteOnlyDownloaded)
    /\ [][CommandLeavesFile]_vars

\* the skill foo was there, add ran with --force, the download succeeded
\* and the document is now the downloaded one
C26_Witness ==
    /\ resp.op = "add" /\ resp.existed /\ resp.force
    /\ resp.skillName = foo
    /\ resp.wrote
    /\ FileAt(present, resp.file) = DownloadedDoc

\* the configuration file held a JSON object before the call
PriorObject ==
    /\ resp.prior.kind = "file" /\ resp.prior.readable
    /\ resp.prior.text.valid
    /\ resp.prior.text.json.t = "object"

\* the servers a JSON object names under mcpServers
ServersOf(json) == Spread(Get(json, "mcpServers"))

\* a write over a file that was there has left a backup with the file's
\* content, made in the same call
BackedUpBeforeWrite ==
    (resp.op = "updateJsonConfig" /\ resp.wrote /\ resp.prior.kind # "absent")
    => /\ resp.at \in DOMAIN configs.backups
       /\ configs.backups[resp.at] = resp.prior.text

\* the file written names the new server definition, and over a JSON object
\* keeps its keys, their values other than mcpServers, and its other servers
MergedOverPrior ==
    (resp.op = "updateJsonConfig" /\ resp.wrote)
    => /\ configs.file.kind = "file" /\ configs.file.text.valid
       /\ configs.file.text.json.t = "object"
       /\ SERVER_KEY \in DOMAIN ServersOf(configs.file.text.json)
       /\ ServersOf(configs.file.text.json)[SERVER_KEY] = NewServer
       /\ PriorObject =>
             /\ \A k \in DOMAIN resp.prior.text.json.f :
                   /\ k \in DOMAIN configs.file.text.json.f
                   /\ k # "mcpServers"
                      => configs.file.text.json.f[k] = resp.prior.text.json.f[k]
             /\ \A e \in DOMAIN ServersOf(resp.prior.text.json) \ {SERVER_KEY} :
                   /\ e \in DOMAIN ServersOf(configs.file.text.json)
                   /\ ServersOf(configs.file.text.json)[e] = ServersOf(resp.prior.text.json)[e]

\* C27: when updateJsonConfig writes a configuration file that was there, a
\* backup holding the file's prior content has been made; when that content
\* was a JSON object the file written keeps every prior top-level key and
\* every prior mcpServers entry other than 'ai-skills-hub', which is set to
\* the new server definition.
C27_BackupThenMerge == BackedUpBeforeWrite /\ MergedOverPrior

\* a configuration with a theme, another server and an old definition of
\* ai-skills-hub was written over
C27_Witness ==
    /\ resp.op = "updateJsonConfig" /\ resp.wrote /\ PriorObject
    /\ DOMAIN ServersOf(resp.prior.text.json) = {"other", SERVER_KEY}
    /\ ServersOf(resp.prior.text.json)[SERVER_KEY] = OldServer
    /\ ServersOf(configs.file.text.json)["other"] = OtherServer

\* what the request in c answered: its error, text and list
Answer(c) ==
    [error |-> c.error, text |-> c.content,
     list |-> IF c.op = "ListResources" THEN Listed(c.acc) ELSE c.acc]

\* the answer of a call_tool or resources/read response r
TextAnswer(r) == [error |-> r.error, text |-> r.text, list |-> <<>>]

ListAnswer(list) == [error |-> "none", text |-> <<>>, list |-> list]

\* what the request answers when it runs alone on the present filesystem
Alone(op, arg) ==
    IF op = "ListTools"
    THEN ListAnswer(ListToolsResponse(fs, faults,
                        scanSkillsDirectoryRun(fs, faults, dirOrder)).tools)
    ELSE IF op = "CallTool"
    THEN TextAnswer(callTool(fs, faults, dirOrder, arg,
                             toolNameToFilename(fs, faults, dirOrder, arg)))
    ELSE IF op = "ListResources"
    THEN ListAnswer(listResources(fs, faults, dirOrder).resources)
    ELSE TextAnswer(ReadResourceResponse(arg, readResourceByUri(fs, faults, arg)))

\* every answered request answered as it does alone
AnswersAsAlone ==
    \A id \in CallIds :
        calls[id].pc = "done" => Answer(calls[id]) = Alone(calls[id].op, calls[id].arg)

\* a step of one handler leaves the local variables of every other alone
Isolated ==
    \A i \in CallIds :
        Locals(calls'[i]) # Locals(calls[i])
        => \A j \in CallIds \ {i} : Locals(calls'[j]) = Locals(calls[j])

\* C24: with several requests in flight and their steps interleaved in any
\* order over an unchanged filesystem, every request answers exactly as it
\* does when run alone, and no step of a handler changes the local state of
\* another request.
C24_HandlersAreReentrant == []AnswersAsAlone /\ [][Isolated]_vars

\* two list_tools requests ran interleaved and both listed the skill foo
C24_Witness ==
    /\ \A id \in CallIds : /\ calls[id].pc = "done" /\ calls[id].overlapped
                           /\ calls[id].op = "ListTools"
    /\ calls[1].acc # <<>>
    /\ calls[2].acc # <<>>

\* a request answered without a change of the filesystem since it began
\* answered as it does alone on the filesystem as it is
ReflectsChange ==
    \A id \in CallIds :
        (calls[id].pc = "done" /\ ~calls[id].stale)
        => Answer(calls[id]) = Alone(calls[id].op, calls[id].arg)

\* a request that met a change has returned a result or thrown one of the
\* errors of its handler
EndsWithAnswer ==
    \A id \in CallIds :
        calls[id].pc = "done"
        => calls[id].error \in
              (IF calls[id].op = "CallTool" THEN {"none", "UnknownTool", "InvalidToolName"}
               ELSE IF calls[id].op = "ReadResource" THEN {"none", "ResourceReadFailure"}
               ELSE {"none"})

\* every request that has begun is answered
Completes == \A id \in CallIds : (calls[id].pc # "idle") ~> (calls[id].pc = "done")

\* C25: nothing is kept from one request to the next: a request that begins
\* after a skill was added, changed or removed answers for the filesystem
\* as it then is, whatever a request that raced with the change has seen;
\* and the racing request is itself answered, with a result or an error.
C25_NoStateBetweenRequests ==
    /\ [](ReflectsChange /\ EndsWithAnswer)
    /\ Completes

\* a list_tools request raced with the removal of a skill and answered with
\* what is no longer there, and the same request begun afterwards answered
\* for the filesystem as it is
C25_Witness ==
    /\ calls[1].pc = "done" /\ calls[1].stale /\ calls[1].op = "ListTools"
    /\ Answer(calls[1]) # Alone(calls[1].op, calls[1].arg)
    /\ calls[2].pc = "done" /\ ~calls[2].stale /\ calls[2].op = "ListTools"
    /\ Answer(calls[2]) = Alone(calls[2].op, calls[2].arg)

====
